---------------------------- MODULE Spec2Model ----------------------------
(***************************************************************************)
(* A model of the cryptographic core of matrix-rust-sdk:                   *)
(*   - the "salamander" Olm session (Session::new / new_remote / encrypt / *)
(*     decrypt) over an abstract Double Ratchet,                           *)
(*   - the Megolm ratchet behind InboundGroupSession::export_at_index,     *)
(*   - the QR verification envelope codec.                                 *)
(* Cryptographic values are terms: two keys are equal exactly when they    *)
(* were derived the same way from the same inputs.                         *)
(***************************************************************************)
EXTENDS Integers, Sequences, FiniteSets, TLC

VARIABLES
    sess,       \* Olm: party -> Session {session_keys, sending_ratchet, receiving_ratchet}
    net,        \* Olm: party -> sequence of messages in flight to that party
    nextKey,    \* Olm: the next fresh Curve25519 ratchet key
    sentCt,     \* Olm: party -> number of encrypt calls made
    last,       \* Olm: the last encrypt/decrypt call and its result
    hist,       \* Olm: history of the run (what has been delivered and how)
    mgOut,      \* Megolm: the outbound group session's ratchet
    mgSent,     \* Megolm: the messages encrypted so far, by message index
    mgSess,     \* Megolm: holder -> the inbound group session it holds
    mgReq,      \* Megolm: the export request that produced the peer's session
    mgLast,     \* Megolm: the last decrypt call and its result
    qrSrc,      \* QR: the value the conversions started from (bytes or a message)
    qrPrev,     \* QR: the value the last conversion was applied to
    qrCur,      \* QR: the result of the last conversion
    qrSteps,    \* QR: conversions applied so far
    dvDev,      \* devices: handle -> the ReadOnlyDevice value it holds
    dvCell,     \* devices: the shared atomics (deleted, trust_state) of a device
    dvOwn,      \* devices: own_identity of the Device
    dvOwner,    \* devices: device_owner_identity of the Device
    dvLast,     \* devices: the last call and its result
    stDb,       \* store: the rows of the database file
    stMem,      \* store: the open SqliteStore (account_id, devices cache)
    stHist,     \* store: history of the run (reopens, what the device row was saved from)
    encPc,      \* encrypt: caller -> where it is in ReadOnlyDevice::encrypt
    encPeer,    \* encrypt: caller -> the sender key of the device it encrypts for
    encLock,    \* encrypt: sender key -> the caller holding the lock of its session list
    encDone,    \* encrypt: caller -> calls completed
    sdPc,       \* save_device: task -> where it is in save_device / save_device_helper
    sdTodo,     \* save_device: task -> the algorithms its loop has still to insert
    sdLock,     \* save_device: the task holding the connection mutex
    sdLog,      \* save_device: the statements executed on the connection, in order
    sdDone,     \* save_device: task -> calls completed
    maDb,       \* shared database: the devices, algorithms and device_keys tables
    maSaved,    \* shared database: account -> what was saved under it so far
    maLast      \* shared database: the last call and its result

olmVars == <<sess, net, nextKey, sentCt, last, hist>>
mgVars == <<mgOut, mgSent, mgSess, mgReq, mgLast>>
qrVars == <<qrSrc, qrPrev, qrCur, qrSteps>>
dvVars == <<dvDev, dvCell, dvOwn, dvOwner, dvLast>>
stVars == <<stDb, stMem, stHist>>
encVars == <<encPc, encPeer, encLock, encDone>>
sdVars == <<sdPc, sdTodo, sdLock, sdLog, sdDone>>
maVars == <<maDb, maSaved, maLast>>
ccVars == <<encVars, sdVars, maVars>>
vars == <<olmVars, mgVars, qrVars, dvVars, stVars, ccVars>>

---------------------------------------------------------------------------
(* Bounds of the Olm model *)

\* encrypt calls of the outbound side A
MaxSend == 4
\* encrypt calls of the inbound side B
MaxReply == 2
\* cap on the skipped message keys cached for one receiving chain
\* (2000 by default; scaled down)
MaxSkip == 1

Parties == {"A", "B"}
Other(p) == IF p = "A" THEN "B" ELSE "A"

\* the plaintext of p's n-th encrypt call: every message carries its own
Plaintext(p, n) == <<p, n>>

\* A ratchet key no session ever generated
EvilKey == 0
\* The ratchet key Session::new generates for the outbound session
FirstKey == 1

---------------------------------------------------------------------------
(* double_ratchet: the primitives behind LocalDoubleRatchet and            *)
(* RemoteDoubleRatchet                                                     *)

\* Curve25519 Diffie-Hellman: DH(a_priv, b_pub) = DH(b_priv, a_pub)
DH(a, b) == {a, b}

\* Shared3DHSecret::expand / RemoteShared3DHSecret::expand -> (root key, chain key)
Expand3DH == [root |-> <<"root", << >> >>, chain |-> <<"chain", << >> >>]

\* HKDF(root, dh, "OLM_RATCHET") -> (new root key, new chain key)
KdfRatchet(root, dh) ==
    [root |-> <<"root", Append(root[2], dh)>>, chain |-> <<"chain", Append(root[2], dh)>>]

\* RatchetChain: the message key (AES key, MAC key, IV) of a chain at a counter value
MessageKey(chain, idx) == <<chain, idx>>

NoChain == <<"none", << >> >>
NoRemote == [some |-> FALSE, rk |-> EvilKey, chain |-> NoChain, idx |-> 0, skipped |-> {}]

\* LocalDoubleRatchet::active
LocalActive(secret, key) ==
    [kind |-> "Active", root |-> secret.root, key |-> key, chain |-> secret.chain, idx |-> 0]

\* LocalDoubleRatchet::inactive
LocalInactive(root, remoteKey) ==
    [kind |-> "Inactive", root |-> root, key |-> remoteKey, chain |-> NoChain, idx |-> 0]

\* RemoteDoubleRatchet::new
RemoteNew(remoteKey, chain) ==
    [some |-> TRUE, rk |-> remoteKey, chain |-> chain, idx |-> 0, skipped |-> {}]

\* InactiveDoubleRatchet::activate: a new local ratchet key and a new sending chain
Activate(r, newKey) ==
    LET k == KdfRatchet(r.root, DH(newKey, r.key))
    IN  [kind |-> "Active", root |-> k.root, key |-> newKey, chain |-> k.chain, idx |-> 0]

\* ActiveDoubleRatchet::encrypt: the Olm message and the advanced ratchet
ActiveEncrypt(r, pt) ==
    [msg |-> [wellformed |-> TRUE, pre |-> FALSE, rk |-> r.key, idx |-> r.idx,
              mk |-> MessageKey(r.chain, r.idx), pt |-> pt],
     ratchet |-> [r EXCEPT !.idx = r.idx + 1]]

\* LocalDoubleRatchet::advance, the DH ratchet step: an active ratchet yields the
\* retired (inactive) sending ratchet and the receiving ratchet of the new remote
\* key; an inactive ratchet holds no local private key to step with
LocalAdvance(r, remoteKey) ==
    LET k == KdfRatchet(r.root, DH(r.key, remoteKey))
    IN  IF r.kind = "Active"
        THEN [ok |-> TRUE, sending |-> LocalInactive(k.root, remoteKey),
              remote |-> RemoteNew(remoteKey, k.chain)]
        ELSE [ok |-> FALSE, sending |-> r, remote |-> NoRemote]

\* RemoteDoubleRatchet::belongs_to
BelongsTo(r, key) == r.rk = key

OutOk(pt) == [kind |-> "Ok", pt |-> pt]
OutErr(e) == [kind |-> e, pt |-> << >>]

\* RemoteDoubleRatchet::decrypt: the outcome and the ratchet after the call.
\* Behind the counter: the key is taken from the skipped-key cache. Ahead of it:
\* the keys in between are derived and cached, unless that exceeds the cap.
\* The MAC is verified before anything is exposed or kept.
RemoteDecrypt(r, m) ==
    IF m.idx < r.idx
    THEN IF m.idx \in r.skipped /\ m.mk = MessageKey(r.chain, m.idx)
         THEN [out |-> OutOk(m.pt), ratchet |-> [r EXCEPT !.skipped = r.skipped \ {m.idx}]]
         ELSE [out |-> OutErr("BadMac"), ratchet |-> r]
    ELSE IF Cardinality(r.skipped) + (m.idx - r.idx) > MaxSkip
         THEN [out |-> OutErr("TooManySkipped"), ratchet |-> r]
         ELSE IF m.mk = MessageKey(r.chain, m.idx)
              THEN [out |-> OutOk(m.pt),
                    ratchet |-> [r EXCEPT !.idx = m.idx + 1,
                                          !.skipped = r.skipped \cup (r.idx .. (m.idx - 1))]]
              ELSE [out |-> OutErr("BadMac"), ratchet |-> r]

---------------------------------------------------------------------------
(* Session *)

\* Session::new
SessionNew(secret, key) ==
    [session_keys |-> TRUE,
     sending_ratchet |-> LocalActive(secret, key),
     receiving_ratchet |-> NoRemote]

SessionNewRemoteSwapped(secret, remoteKey) ==
    [session_keys |-> FALSE,
     sending_ratchet |-> LocalInactive(secret.chain, remoteKey),
     receiving_ratchet |-> RemoteNew(remoteKey, secret.root)]

\* Session::new_remote
SessionNewRemote(secret, remoteKey) ==
    [session_keys |-> FALSE,
     sending_ratchet |-> LocalInactive(secret.root, remoteKey),
     receiving_ratchet |-> RemoteNew(remoteKey, secret.chain)]

SessionEncryptNotStored(s, pt, newKey) ==
    LET inactive == s.sending_ratchet.kind = "Inactive"
        ratchet == IF inactive THEN Activate(s.sending_ratchet, newKey) ELSE s.sending_ratchet
        e == ActiveEncrypt(ratchet, pt)
    IN  [msg |-> [e.msg EXCEPT !.pre = s.session_keys],
         session |-> IF inactive THEN s ELSE [s EXCEPT !.sending_ratchet = e.ratchet]]

SessionEncryptKeepsCounter(s, pt, newKey) ==
    LET inactive == s.sending_ratchet.kind = "Inactive"
        ratchet == IF inactive THEN Activate(s.sending_ratchet, newKey) ELSE s.sending_ratchet
        e == ActiveEncrypt(ratchet, pt)
    IN  [msg |-> [e.msg EXCEPT !.pre = s.session_keys],
         session |-> IF inactive THEN [s EXCEPT !.sending_ratchet = e.ratchet] ELSE s]

\* Session::encrypt: the bytes returned and the session after the call
SessionEncrypt(s, pt, newKey) ==
    LET ratchet == IF s.sending_ratchet.kind = "Inactive"
                   THEN Activate(s.sending_ratchet, newKey)
                   ELSE s.sending_ratchet
        e == ActiveEncrypt(ratchet, pt)
    IN  [msg |-> [e.msg EXCEPT !.pre = s.session_keys],
         session |-> [s EXCEPT !.sending_ratchet = e.ratchet]]

SessionDecryptTail(s, m, step) ==
    IF ~m.wellformed
    THEN [out |-> OutErr("Panic"), session |-> s]
    ELSE IF step
    THEN LET a == LocalAdvance(s.sending_ratchet, m.rk)
             d == RemoteDecrypt(a.remote, m)
         IN  IF a.ok
             THEN [out |-> d.out,
                   session |-> [session_keys |-> FALSE,
                                sending_ratchet |-> a.sending,
                                receiving_ratchet |-> d.ratchet]]
             ELSE [out |-> OutErr("Panic"), session |-> s]
    ELSE LET d == RemoteDecrypt(s.receiving_ratchet, m)
         IN  [out |-> d.out, session |-> [s EXCEPT !.receiving_ratchet = d.ratchet]]

SessionDecryptNoNegation(s, m) ==
    SessionDecryptTail(s, m, s.receiving_ratchet.some /\ BelongsTo(s.receiving_ratchet, m.rk))

SessionDecryptKeepsSending(s, m) ==
    LET step == ~(s.receiving_ratchet.some /\ BelongsTo(s.receiving_ratchet, m.rk))
        d == SessionDecryptTail(s, m, step)
    IN  [d EXCEPT !.session.sending_ratchet = s.sending_ratchet]

SessionDecryptDropsChain(s, m) ==
    LET step == ~(s.receiving_ratchet.some /\ BelongsTo(s.receiving_ratchet, m.rk))
        d == SessionDecryptTail(s, m, step)
    IN  IF step THEN d ELSE [d EXCEPT !.session = s]

SessionDecryptKeepsSessionKeys(s, m) ==
    LET step == ~(s.receiving_ratchet.some /\ BelongsTo(s.receiving_ratchet, m.rk))
        d == SessionDecryptTail(s, m, step)
    IN  [d EXCEPT !.session.session_keys = s.session_keys]

DecryptBranchMapOrTrue(s, m) ==
    IF ~(~s.receiving_ratchet.some \/ BelongsTo(s.receiving_ratchet, m.rk))
    THEN "advance"
    ELSE IF s.receiving_ratchet.some THEN "existing" ELSE "todo"

\* the branch of Session::decrypt a decoded message takes: the DH ratchet step
\* unless a receiving ratchet exists and the message's ratchet key belongs to
\* it (map_or(false, ..)), else the existing receiving ratchet, else todo!()
DecryptBranch(s, m) ==
    IF ~(s.receiving_ratchet.some /\ BelongsTo(s.receiving_ratchet, m.rk))
    THEN "advance"
    ELSE IF s.receiving_ratchet.some THEN "existing" ELSE "todo"

\* Session::decrypt: the value returned and the session after the call.
\* decode().unwrap() aborts the call on bytes that are no Olm message; the DH
\* ratchet branch assigns the three fields whatever remote_ratchet.decrypt returned.
SessionDecrypt(s, m) ==
    IF ~m.wellformed
    THEN [out |-> OutErr("Panic"), session |-> s]
    ELSE IF DecryptBranch(s, m) = "advance"
    THEN LET a == LocalAdvance(s.sending_ratchet, m.rk)
             d == RemoteDecrypt(a.remote, m)
         IN  IF a.ok
             THEN [out |-> d.out,
                   session |-> [session_keys |-> FALSE,
                                sending_ratchet |-> a.sending,
                                receiving_ratchet |-> d.ratchet]]
             ELSE [out |-> OutErr("Panic"), session |-> s]
    ELSE IF DecryptBranch(s, m) = "existing"
    THEN LET d == RemoteDecrypt(s.receiving_ratchet, m)
         IN  [out |-> d.out, session |-> [s EXCEPT !.receiving_ratchet = d.ratchet]]
    ELSE [out |-> OutErr("Todo"), session |-> s]

\* Session::decrypt_prekey: unwrap the PrekeyMessage, decrypt the inner message
SessionDecryptPrekey(s, m) == SessionDecrypt(s, [m EXCEPT !.pre = FALSE])

---------------------------------------------------------------------------
(* The two ends of one Olm channel: A holds the outbound session, B the    *)
(* inbound session created from A's first ratchet key.                     *)

NoMsg == [wellformed |-> FALSE, pre |-> FALSE, rk |-> EvilKey, idx |-> 0,
          mk |-> <<"none">>, pt |-> << >>]

\* A well-formed message whose MAC no message key verifies
Forged(rk, idx) == [wellformed |-> TRUE, pre |-> FALSE, rk |-> rk, idx |-> idx,
                    mk |-> <<"forged">>, pt |-> << >>]

\* Bytes that do not decode as an Olm message
Garbage == [NoMsg EXCEPT !.mk = <<"garbage">>]

OlmInit ==
    /\ sess = [p \in Parties |->
                 IF p = "A" THEN SessionNew(Expand3DH, FirstKey)
                            ELSE SessionNewRemote(Expand3DH, FirstKey)]
    /\ net = [p \in Parties |-> << >>]
    /\ nextKey = FirstKey + 1
    /\ sentCt = [p \in Parties |-> 0]
    /\ last = [op |-> "none", who |-> "A", msg |-> NoMsg, out |-> OutErr("none")]
    /\ hist = [decOk |-> [p \in Parties |-> FALSE], failed |-> FALSE,
               tampered |-> FALSE, reordered |-> FALSE, crossed |-> FALSE,
               inbound |-> FALSE]

\* p calls encrypt and hands the result to the transport. The inbound session is
\* created for the first message that arrives, and is used only after it has been
\* given that message.
Encrypt(p) ==
    /\ sentCt[p] < (IF p = "A" THEN MaxSend ELSE MaxReply)
    /\ p = "B" => hist.inbound
    /\ LET e == SessionEncrypt(sess[p], Plaintext(p, sentCt[p] + 1), nextKey)
       IN  /\ sess' = [sess EXCEPT ![p] = e.session]
           /\ net' = [net EXCEPT ![Other(p)] = Append(@, e.msg)]
           /\ nextKey' = IF sess[p].sending_ratchet.kind = "Inactive"
                         THEN nextKey + 1 ELSE nextKey
           /\ last' = [op |-> "enc", who |-> p, msg |-> e.msg, out |-> OutErr("none")]
    /\ sentCt' = [sentCt EXCEPT ![p] = @ + 1]
    /\ UNCHANGED <<hist, mgVars, qrVars, dvVars, stVars, ccVars>>

RemoveAt(q, i) == SubSeq(q, 1, i - 1) \o SubSeq(q, i + 1, Len(q))

\* what p's session makes of message m: decrypt_prekey for a PrekeyMessage,
\* decrypt otherwise
Decrypted(p, m) ==
    IF m.pre THEN SessionDecryptPrekey(sess[p], m) ELSE SessionDecrypt(sess[p], m)

\* the transport delivers the i-th message in flight to p, which decrypts it
Deliver(p, i) ==
    /\ i \in 1 .. Len(net[p])
    /\ LET m == net[p][i]
           d == Decrypted(p, m)
       IN  /\ sess' = [sess EXCEPT ![p] = d.session]
           /\ last' = [op |-> "dec", who |-> p, msg |-> m, out |-> d.out]
           /\ hist' = [hist EXCEPT
                         !.decOk[p] = @ \/ d.out.kind = "Ok",
                         !.failed = @ \/ d.out.kind # "Ok",
                         !.inbound = @ \/ p = "B",
                         !.reordered = @ \/ i # 1,
                         !.crossed = @ \/ \E j \in 1 .. (i - 1) : net[p][j].rk # m.rk]
    /\ net' = [net EXCEPT ![p] = RemoveAt(@, i)]
    /\ UNCHANGED <<nextKey, sentCt, mgVars, qrVars, dvVars, stVars, ccVars>>

\* p is handed a message the peer's encrypt never produced (at most once in a run)
Tamper(p, m) ==
    /\ ~hist.tampered
    /\ LET d == Decrypted(p, m)
       IN  /\ sess' = [sess EXCEPT ![p] = d.session]
           /\ last' = [op |-> "dec", who |-> p, msg |-> m, out |-> d.out]
           /\ hist' = [hist EXCEPT !.tampered = TRUE, !.failed = TRUE,
                                   !.inbound = @ \/ p = "B",
                                   !.decOk[p] = @ \/ d.out.kind = "Ok"]
    /\ UNCHANGED <<net, nextKey, sentCt, mgVars, qrVars, dvVars, stVars, ccVars>>

---------------------------------------------------------------------------
(* Megolm: the ratchet of a group session and the inbound sessions exported *)
(* from it                                                                  *)

\* messages the outbound group session encrypts
MaxGroupMsgs == 9
\* steps after which the next higher ratchet part advances (2^8; scaled down)
Stride == 2

Parts == 0 .. 3
Pow(b, e) == IF e = 0 THEN 1 ELSE IF e = 1 THEN b ELSE IF e = 2 THEN b * b ELSE b * b * b
Max(a, b) == IF a >= b THEN a ELSE b

\* HMAC(R[from], tag of part to)
Rehash(parts, from, to) == Append(parts[from], to)

\* the four parts derived from the session's seed, at message index 0
MegolmNew == [parts |-> [i \in Parts |-> <<10 + i>>], counter |-> 0]

\* advancing by one: the highest part whose stride divides the new index
\* advances, and the parts below it are reseeded from it
MegolmAdvance(r) ==
    LET c == r.counter + 1
        h == CHOOSE j \in Parts : /\ c % Pow(Stride, 3 - j) = 0
                                  /\ \A k \in Parts : k < j => c % Pow(Stride, 3 - k) # 0
    IN  [parts |-> [i \in Parts |-> IF i >= h THEN Rehash(r.parts, h, i) ELSE r.parts[i]],
         counter |-> c]

RECURSIVE Bump(_, _, _)
\* part j rehashed n times on its own
Bump(parts, j, n) ==
    IF n = 0 THEN parts ELSE Bump([parts EXCEPT ![j] = Rehash(parts, j, j)], j, n - 1)

RECURSIVE AdvancePart(_, _, _)
\* advancing to index target, part by part from R[0]: part j is rehashed as many
\* times as its digit of the index moves, the last time reseeding the parts below
AdvancePart(r, target, j) ==
    IF j > 3 THEN r
    ELSE LET unit == Pow(Stride, 3 - j)
             steps == ((target \div unit) - (r.counter \div unit)) % Stride
             bumped == Bump(r.parts, j, steps - 1)
             stepped == [parts |-> [i \in Parts |-> IF i >= j THEN Rehash(bumped, j, i)
                                                              ELSE bumped[i]],
                         counter |-> (target \div unit) * unit]
         IN  AdvancePart(IF steps = 0 THEN r ELSE stepped, target, j + 1)

MegolmAdvanceTo(r, target) == AdvancePart(r, target, 0)

NoGroupSession == [some |-> FALSE, parts |-> [i \in Parts |-> << >>], counter |-> 0]

\* InboundGroupSession::export_at_index: the ratchet cannot be wound back, so the
\* export is at the session's first known index when that is higher
ExportAtIndex(s, index) ==
    LET r == MegolmAdvanceTo([parts |-> s.parts, counter |-> s.counter], Max(s.counter, index))
    IN  [some |-> TRUE, parts |-> r.parts, counter |-> r.counter]

\* InboundGroupSession::export: at the first known index
Export(s) == ExportAtIndex(s, s.counter)

EncryptSessionIgnoresIndex(session, message_index) == Export(session)

\* Device::encrypt_session: the key export that is encrypted for the device
\* (message_index is an Option: the empty set or one index)
EncryptSession(session, message_index) ==
    IF message_index # {}
    THEN ExportAtIndex(session, CHOOSE index \in message_index : TRUE)
    ELSE Export(session)

GroupPlaintext(index) == <<"event", index>>

\* OutboundGroupSession::encrypt at the current message index
GroupMessage(r) == [index |-> r.counter, key |-> r.parts, pt |-> GroupPlaintext(r.counter)]

\* InboundGroupSession::decrypt
GroupDecrypt(s, m) ==
    IF m.index < s.counter
    THEN OutErr("UnknownIndex")
    ELSE IF MegolmAdvanceTo([parts |-> s.parts, counter |-> s.counter], m.index).parts = m.key
         THEN OutOk(m.pt)
         ELSE OutErr("BadSignature")

Holders == {"own", "peer"}

MgInit ==
    /\ mgOut = MegolmNew
    /\ mgSent = << >>
    /\ mgSess = [h \in Holders |->
                   IF h = "own" THEN [some |-> TRUE, parts |-> MegolmNew.parts, counter |-> 0]
                                ELSE NoGroupSession]
    /\ mgReq = [message_index |-> {}, floor |-> 0]
    /\ mgLast = [who |-> "own", index |-> 0, out |-> OutErr("none")]

\* the sender encrypts the next room message
GroupEncrypt ==
    /\ Len(mgSent) < MaxGroupMsgs
    /\ mgSent' = Append(mgSent, GroupMessage(mgOut))
    /\ mgOut' = MegolmAdvance(mgOut)
    /\ UNCHANGED <<mgSess, mgReq, mgLast, olmVars, qrVars, dvVars, stVars, ccVars>>

\* holder h forwards its session to the peer device, which imports the export
Share(h, message_index) ==
    /\ mgSess[h].some
    /\ mgSess' = [mgSess EXCEPT !["peer"] = EncryptSession(mgSess[h], message_index)]
    /\ mgReq' = [message_index |-> message_index, floor |-> mgSess[h].counter]
    /\ UNCHANGED <<mgOut, mgSent, mgLast, olmVars, qrVars, dvVars, stVars, ccVars>>

\* holder h decrypts the message with the given index
GroupReceive(h, i) ==
    /\ mgSess[h].some
    /\ i \in 1 .. Len(mgSent)
    /\ mgLast' = [who |-> h, index |-> i - 1, out |-> GroupDecrypt(mgSess[h], mgSent[i])]
    /\ UNCHANGED <<mgOut, mgSent, mgSess, mgReq, olmVars, qrVars, dvVars, stVars, ccVars>>

---------------------------------------------------------------------------
(* QR verification envelope: QrVerification::to_bytes and ::from_bytes *)

\* conversions applied to one input
MaxCycle == 3

HEADER == <<77, 65, 84, 82, 73, 88>>
VERSION == 2
MAX_MODE == 2
MIN_SECRET_LEN == 8
KEY_LEN == 32
MAX_FLOW_LEN == 65535

Key(byte) == [i \in 1 .. KEY_LEN |-> byte]
Take(b, n) == SubSeq(b, 1, IF n < Len(b) THEN n ELSE Len(b))
Drop(b, n) == SubSeq(b, n + 1, Len(b))

Variants == <<"Verification", "SelfVerification", "SelfVerificationNoMasterKey">>
ModeOf(variant) == CHOOSE mode \in 0 .. MAX_MODE : Variants[mode + 1] = variant

\* a room ID: the sigil '!', a localpart, ':' and a non-empty host
IsRoomId(flow_id) ==
    /\ Len(flow_id) >= 3
    /\ flow_id[1] = 33
    /\ \E i \in 2 .. Len(flow_id) - 1 : flow_id[i] = 58

QrOk(m) == [kind |-> "Ok", msg |-> m, bytes |-> << >>, arg |-> 0]
QrBytes(b) == [kind |-> "Bytes", msg |-> << >>, bytes |-> b, arg |-> 0]
QrErr(e, n) == [kind |-> e, msg |-> << >>, bytes |-> << >>, arg |-> n]

QrNewChecksEveryMode(mode, flow_id, first_key, second_key, shared_secret) ==
    IF Len(shared_secret) < MIN_SECRET_LEN
    THEN QrErr("SharedSecret", Len(shared_secret))
    ELSE IF ~IsRoomId(flow_id)
         THEN QrErr("Identifier", 0)
         ELSE QrOk([variant |-> Variants[mode + 1], flow_id |-> flow_id,
                    first_key |-> first_key, second_key |-> second_key,
                    shared_secret |-> shared_secret])

QrNewRefusesMinimum(mode, flow_id, first_key, second_key, shared_secret) ==
    IF Len(shared_secret) <= MIN_SECRET_LEN
    THEN QrErr("SharedSecret", Len(shared_secret))
    ELSE IF mode = 0 /\ ~IsRoomId(flow_id)
         THEN QrErr("Identifier", 0)
         ELSE QrOk([variant |-> Variants[mode + 1], flow_id |-> flow_id,
                    first_key |-> first_key, second_key |-> second_key,
                    shared_secret |-> shared_secret])

\* QrVerification::new: the checks on the decoded fields
QrNew(mode, flow_id, first_key, second_key, shared_secret) ==
    IF Len(shared_secret) < MIN_SECRET_LEN
    THEN QrErr("SharedSecret", Len(shared_secret))
    ELSE IF mode = 0 /\ ~IsRoomId(flow_id)
         THEN QrErr("Identifier", 0)
         ELSE QrOk([variant |-> Variants[mode + 1], flow_id |-> flow_id,
                    first_key |-> first_key, second_key |-> second_key,
                    shared_secret |-> shared_secret])

\* the fields after the mode byte: flow length, flow id, the two keys, the secret
ReadFields(b) ==
    IF Len(b) < 10 THEN QrErr("Read", Len(b))
    ELSE LET flow_len == b[9] * 256 + b[10]
             body == Drop(b, 10)
         IN  IF Len(body) < flow_len + 2 * KEY_LEN
             THEN QrErr("Read", Len(b))
             ELSE QrNew(b[8], Take(body, flow_len),
                        Take(Drop(body, flow_len), KEY_LEN),
                        Take(Drop(body, flow_len + KEY_LEN), KEY_LEN),
                        Drop(body, flow_len + 2 * KEY_LEN))

FromBytesLowLengthByte(b) ==
    LET flow_len == b[10]
        body == Drop(b, 10)
    IN  IF Len(b) < 10 \/ Take(b, 6) # HEADER \/ b[7] # VERSION \/ b[8] > MAX_MODE
           \/ Len(body) < flow_len + 2 * KEY_LEN
        THEN QrErr("Read", Len(b))
        ELSE QrNew(b[8], Take(body, flow_len),
                   Take(Drop(body, flow_len), KEY_LEN),
                   Take(Drop(body, flow_len + KEY_LEN), KEY_LEN),
                   Drop(body, flow_len + 2 * KEY_LEN))

FromBytesVersionFirst(b) ==
    IF Len(b) < 8 THEN QrErr("Header", 0)
    ELSE IF b[7] # VERSION THEN QrErr("Version", b[7])
    ELSE IF Take(b, 6) # HEADER THEN QrErr("Header", 0)
    ELSE IF b[8] > MAX_MODE THEN QrErr("Mode", b[8])
    ELSE ReadFields(b)

FromBytesModeFirst(b) ==
    IF Len(b) < 8 \/ Take(b, 6) # HEADER THEN QrErr("Header", 0)
    ELSE IF b[8] > MAX_MODE THEN QrErr("Mode", b[8])
    ELSE IF b[7] # VERSION THEN QrErr("Version", b[7])
    ELSE ReadFields(b)

FromBytesLengthBeforeMode(b) ==
    IF Len(b) < 8 \/ Take(b, 6) # HEADER THEN QrErr("Header", 0)
    ELSE IF b[7] # VERSION THEN QrErr("Version", b[7])
    ELSE IF Len(b) < 10 THEN QrErr("Read", Len(b))
    ELSE IF b[8] > MAX_MODE THEN QrErr("Mode", b[8])
    ELSE ReadFields(b)

FromBytesShortKeys(b) ==
    IF Len(b) < 8 \/ Take(b, 6) # HEADER THEN QrErr("Header", 0)
    ELSE IF b[7] # VERSION THEN QrErr("Version", b[7])
    ELSE IF b[8] > MAX_MODE THEN QrErr("Mode", b[8])
    ELSE IF Len(b) < 10 THEN QrErr("Read", Len(b))
    ELSE LET flow_len == b[9] * 256 + b[10]
             body == Drop(b, 10)
         IN  QrNew(b[8], Take(body, flow_len),
                   Take(Drop(body, flow_len), KEY_LEN),
                   Take(Drop(body, flow_len + KEY_LEN), KEY_LEN),
                   Drop(body, flow_len + 2 * KEY_LEN))

\* QrVerification::from_bytes: header, version and mode are read and checked in
\* this order, then the fields are read
FromBytes(b) ==
    IF Len(b) < 8 \/ Take(b, 6) # HEADER THEN QrErr("Header", 0)
    ELSE IF b[7] # VERSION THEN QrErr("Version", b[7])
    ELSE IF b[8] > MAX_MODE THEN QrErr("Mode", b[8])
    ELSE ReadFields(b)

ToBytesLittleEndian(m) ==
    QrBytes(HEADER \o <<VERSION, ModeOf(m.variant)>>
            \o <<Len(m.flow_id) % 256, Len(m.flow_id) \div 256>>
            \o m.flow_id \o m.first_key \o m.second_key \o m.shared_secret)

\* QrVerification::to_bytes
ToBytes(m) ==
    IF Len(m.flow_id) > MAX_FLOW_LEN
    THEN QrErr("TooLong", Len(m.flow_id))
    ELSE QrBytes(HEADER \o <<VERSION, ModeOf(m.variant)>>
                 \o <<Len(m.flow_id) \div 256, Len(m.flow_id) % 256>>
                 \o m.flow_id \o m.first_key \o m.second_key \o m.shared_secret)

\* the inputs: flow identifiers, secrets and byte strings of the crate's tests
RoomFlow == <<33, 116, 101, 115, 116, 58, 108, 111, 99, 97, 108, 104, 111, 115, 116>>
BadRoomFlow == <<116, 101, 115, 116, 58, 108, 111, 99, 97, 108, 104, 111, 115, 116>>
TxnFlow == <<70, 76, 79, 87, 95, 73, 68>>
ShortSecret == <<83, 69, 67, 82, 69, 84>>
LongSecret == <<83, 69, 67, 82, 69, 84, 73, 83, 76, 79, 78, 71, 69, 78, 79, 85, 71, 72>>
NonMatrixCode == <<78, 111, 110, 77, 97, 116, 114, 105, 120, 67, 111, 100, 101>>

\* the envelope of decode_encode_cycle, written out byte by byte
VERIFICATION == HEADER \o <<2, 0, 0, 15>> \o RoomFlow \o Key(65) \o Key(66) \o LongSecret

FlowIds == {RoomFlow, BadRoomFlow, TxnFlow, << >>}
Secrets == {ShortSecret, Take(LongSecret, MIN_SECRET_LEN), LongSecret}

\* the messages a caller can hold: what QrVerification::new accepts
QrMessages ==
    {[variant |-> Variants[mode + 1], flow_id |-> f, first_key |-> Key(ka),
      second_key |-> Key(kb), shared_secret |-> s] :
        mode \in 0 .. MAX_MODE, f \in FlowIds,
        ka \in {65}, kb \in {65, 66}, s \in {t \in Secrets : Len(t) >= MIN_SECRET_LEN}}

ValidQrMessages == {m \in QrMessages : m.variant = "Verification" => IsRoomId(m.flow_id)}

\* byte strings a scanner can hand over: envelopes with every field right or
\* wrong, the length field agreeing with the flow id or not, cut short or whole
Envelope(magic, version, mode, hi, lo, f, s) ==
    magic \o <<version, mode, hi, lo>> \o f \o Key(65) \o Key(66) \o s

QrByteStrings ==
    LET whole == {Envelope(magic, version, mode, hi, lo, f, s) :
                    magic \in {HEADER, Take(NonMatrixCode, 6)},
                    version \in {1, VERSION, 3}, mode \in 0 .. MAX_MODE + 1 \cup {255},
                    hi \in {0, 1},
                    lo \in {0, Len(TxnFlow), Len(BadRoomFlow), Len(RoomFlow)},
                    f \in {RoomFlow, BadRoomFlow, TxnFlow},
                    s \in Secrets}
    IN  {VERIFICATION, NonMatrixCode}
        \cup {Take(b, n) : b \in whole, n \in {7, 8, 9, 10, 12, 30, 60, 90, 200}}

NoQr == QrErr("none", 0)

QrInit ==
    /\ qrSrc \in {QrOk(m) : m \in ValidQrMessages} \cup {QrBytes(b) : b \in QrByteStrings}
    /\ qrPrev = NoQr
    /\ qrCur = qrSrc
    /\ qrSteps = 0

QrIdle ==
    /\ qrSrc = NoQr
    /\ qrPrev = NoQr
    /\ qrCur = NoQr
    /\ qrSteps = 0

\* result.to_bytes()
QrEncode ==
    /\ qrSteps < MaxCycle
    /\ qrCur.kind = "Ok"
    /\ qrCur' = ToBytes(qrCur.msg)
    /\ qrPrev' = qrCur
    /\ qrSteps' = qrSteps + 1
    /\ UNCHANGED <<qrSrc, olmVars, mgVars, dvVars, stVars, ccVars>>

\* QrVerification::from_bytes(bytes)
QrDecode ==
    /\ qrSteps < MaxCycle
    /\ qrCur.kind = "Bytes"
    /\ qrCur' = FromBytes(qrCur.bytes)
    /\ qrPrev' = qrCur
    /\ qrSteps' = qrSteps + 1
    /\ UNCHANGED <<qrSrc, olmVars, mgVars, dvVars, stVars, ccVars>>

---------------------------------------------------------------------------
(* Devices: ReadOnlyDevice, its local trust and deleted flag, and the trust *)
(* a Device derives from the cross-signing identities                       *)

\* Ed25519 keys a device or a forger can hold (0 stands for no key)
NumKeys == 2

LocalTrust == <<"Verified", "BlackListed", "Ignored", "Unset">>
LocalTrustStates == {LocalTrust[i] : i \in 1 .. 4}

Handles == {"d", "c"}

NoDevice ==
    [some |-> FALSE, user_id |-> "", device_id |-> "", algorithms |-> {}, keys |-> 0,
     signatures |-> [device |-> 0, identity |-> FALSE], display_name |-> 0, cell |-> 0,
     made |-> "none"]

\* the algorithm lists a device announces
AlgorithmLists == <<{"olm"}, {"olm", "megolm"}>>

\* DeviceKeys as received from the server: the Ed25519 key (keys), which key made
\* the signature under the device's key id (0: none, or one that does not
\* verify), and whether the owner's self-signing key has signed them
DeviceKeysInputs ==
    {[user_id |-> "@user", device_id |-> "DEVICEID", algorithms |-> AlgorithmLists[v],
      keys |-> k,
      signatures |-> [device |-> by, identity |-> x], display_name |-> v] :
        v \in 1 .. 2, k \in 0 .. NumKeys, by \in 0 .. NumKeys, x \in BOOLEAN}

IsSignedByUpdatedKey(device, device_keys) ==
    IF device_keys.keys = 0 THEN "MissingSigningKey"
    ELSE IF device_keys.signatures.device = device_keys.keys THEN "Ok"
    ELSE "BadSignature"

\* ReadOnlyDevice::is_signed_by_device (Utility::verify_json with the stored key)
IsSignedByDevice(device, device_keys) ==
    IF device.keys = 0 THEN "MissingSigningKey"
    ELSE IF device_keys.signatures.device = device.keys THEN "Ok"
    ELSE "BadSignature"

\* ReadOnlyDevice::verify_device_keys
VerifyDeviceKeys(device, device_keys) == IsSignedByDevice(device, device_keys)

\* the fields update_device and try_from take from the DeviceKeys
WithDeviceKeys(device, device_keys) ==
    [device EXCEPT !.algorithms = device_keys.algorithms,
                   !.keys = device_keys.keys,
                   !.signatures = device_keys.signatures,
                   !.display_name = device_keys.display_name]

UpdateDeviceKeepsDisplayName(device, device_keys) ==
    LET r == VerifyDeviceKeys(device, device_keys)
    IN  [res |-> r,
         device |-> IF r = "Ok"
                    THEN [WithDeviceKeys(device, device_keys)
                            EXCEPT !.display_name = device.display_name]
                    ELSE device]

UpdateDeviceDropsIdentitySignature(device, device_keys) ==
    LET r == VerifyDeviceKeys(device, device_keys)
    IN  [res |-> r,
         device |-> IF r = "Ok"
                    THEN [WithDeviceKeys(device, device_keys)
                            EXCEPT !.signatures.identity = FALSE]
                    ELSE device]

UpdateDeviceAssignsBeforeVerify(device, device_keys) ==
    [res |-> VerifyDeviceKeys(device, device_keys),
     device |-> WithDeviceKeys(device, device_keys)]

\* ReadOnlyDevice::update_device
UpdateDevice(device, device_keys) ==
    LET r == VerifyDeviceKeys(device, device_keys)
    IN  [res |-> r,
         device |-> IF r = "Ok" THEN WithDeviceKeys(device, device_keys) ELSE device]

\* TryFrom<&DeviceKeys> for ReadOnlyDevice: a device with a fresh deleted flag and
\* local trust (cell), kept only if the keys are signed with their own key
TryFromDeviceKeys(device_keys, cell) ==
    LET device == WithDeviceKeys([NoDevice EXCEPT !.some = TRUE,
                                                  !.user_id = device_keys.user_id,
                                                  !.device_id = device_keys.device_id,
                                                  !.cell = cell,
                                                  !.made = "try_from"], device_keys)
        r == VerifyDeviceKeys(device, device_keys)
    IN  [res |-> r, device |-> IF r = "Ok" THEN device ELSE NoDevice]

FreshCell == [deleted |-> FALSE, trust |-> "Unset"]

\* ReadOnlyDevice::is_trusted
IsTrusted(cell) == cell.trust = "Verified"

\* OwnUserIdentity::is_device_signed / UserIdentity::is_device_signed: the device
\* carries a signature of the identity's self-signing key
IsDeviceSigned(device) == device.signatures.identity

NoOwn == [some |-> FALSE, verified |-> FALSE]
NoOwner == [kind |-> "None", signed |-> FALSE]

TrustStateIgnoresOwnVerification(device, cell, own_identity, device_owner) ==
    IF IsTrusted(cell) THEN TRUE
    ELSE /\ own_identity.some
         /\ CASE device_owner.kind = "Own" -> IsDeviceSigned(device)
              [] device_owner.kind = "Other" -> device_owner.signed /\ IsDeviceSigned(device)
              [] OTHER -> FALSE

\* ReadOnlyDevice::trust_state
TrustState(device, cell, own_identity, device_owner) ==
    IF IsTrusted(cell) THEN TRUE
    ELSE /\ own_identity.some
         /\ own_identity.verified
         /\ CASE device_owner.kind = "Own" -> IsDeviceSigned(device)
              [] device_owner.kind = "Other" -> device_owner.signed /\ IsDeviceSigned(device)
              [] OTHER -> FALSE

\* ReadOnlyDevice::deleted of the device held by handle h
Deleted(h) == dvCell[dvDev[h].cell].deleted

\* Device::trust_state of the device held by handle h
Trusted(h) == TrustState(dvDev[h], dvCell[dvDev[h].cell], dvOwn, dvOwner)

NoCall == [op |-> "none", h |-> "d", res |-> "Ok", device_keys |-> NoDevice, state |-> "Unset",
           arg |-> << >>, out |-> << >>]
Call(op, h, res) == [NoCall EXCEPT !.op = op, !.h = h, !.res = res]

DvInit ==
    /\ dvDev = [h \in Handles |-> NoDevice]
    /\ dvCell = << >>
    /\ dvOwn = NoOwn
    /\ dvOwner = NoOwner
    /\ dvLast = NoCall

\* ReadOnlyDevice::try_from(&device_keys), held by handle d
DeviceTryFrom(device_keys) ==
    /\ ~dvDev["d"].some
    /\ LET r == TryFromDeviceKeys(device_keys, Len(dvCell) + 1)
       IN  /\ dvDev' = [dvDev EXCEPT !["d"] = r.device]
           /\ dvCell' = IF r.res = "Ok" THEN Append(dvCell, FreshCell) ELSE dvCell
           /\ dvLast' = [Call("try_from", "d", r.res) EXCEPT !.device_keys = device_keys]
    /\ UNCHANGED <<dvOwn, dvOwner, olmVars, mgVars, qrVars, stVars, ccVars>>

\* device.update_device(&device_keys) on the value handle h holds
DeviceUpdate(h, device_keys) ==
    /\ dvDev[h].some
    /\ LET r == UpdateDevice(dvDev[h], device_keys)
       IN  /\ dvDev' = [dvDev EXCEPT ![h] = r.device]
           /\ dvLast' = [Call("update_device", h, r.res) EXCEPT !.device_keys = device_keys]
    /\ UNCHANGED <<dvCell, dvOwn, dvOwner, olmVars, mgVars, qrVars, stVars, ccVars>>

\* device.set_trust_state(state): a store into the shared atomic
DeviceSetTrustState(h, state) ==
    /\ dvDev[h].some
    /\ dvCell' = [dvCell EXCEPT ![dvDev[h].cell].trust = state]
    /\ dvLast' = [Call("set_trust_state", h, "Ok") EXCEPT !.state = state]
    /\ UNCHANGED <<dvDev, dvOwn, dvOwner, olmVars, mgVars, qrVars, stVars, ccVars>>

\* device.mark_as_deleted(): a store into the shared atomic
DeviceMarkAsDeleted(h) ==
    /\ dvDev[h].some
    /\ dvCell' = [dvCell EXCEPT ![dvDev[h].cell].deleted = TRUE]
    /\ dvLast' = Call("mark_as_deleted", h, "Ok")
    /\ UNCHANGED <<dvDev, dvOwn, dvOwner, olmVars, mgVars, qrVars, stVars, ccVars>>

DeviceCloneCopiesAtomics ==
    /\ dvDev["d"].some
    /\ dvDev' = [dvDev EXCEPT !["c"] = [dvDev["d"] EXCEPT !.cell = Len(dvCell) + 1]]
    /\ dvCell' = Append(dvCell, dvCell[dvDev["d"].cell])
    /\ dvLast' = Call("clone", "c", "Ok")
    /\ UNCHANGED <<dvOwn, dvOwner, olmVars, mgVars, qrVars, stVars, ccVars>>

\* device.clone(): handle c gets the fields by value and the same atomics
DeviceClone ==
    /\ dvDev["d"].some
    /\ dvDev' = [dvDev EXCEPT !["c"] = dvDev["d"]]
    /\ dvLast' = Call("clone", "c", "Ok")
    /\ UNCHANGED <<dvCell, dvOwn, dvOwner, olmVars, mgVars, qrVars, stVars, ccVars>>

\* verification evidence arriving at the identities the Device is built with: our
\* own identity becomes known, is verified; the owner's identity becomes known
\* (ours, or another user's), is signed by ours
IdentityEvidence ==
    /\ \/ ~dvOwn.some /\ dvOwn' = [some |-> TRUE, verified |-> FALSE] /\ dvOwner' = dvOwner
       \/ dvOwn.some /\ ~dvOwn.verified /\ dvOwn' = [dvOwn EXCEPT !.verified = TRUE]
          /\ dvOwner' = dvOwner
       \/ dvOwner.kind = "None" /\ dvOwn' = dvOwn
          /\ \E kind \in {"Own", "Other"} : dvOwner' = [kind |-> kind, signed |-> FALSE]
       \/ dvOwner.kind = "Other" /\ ~dvOwner.signed /\ dvOwn.some /\ dvOwn' = dvOwn
          /\ dvOwner' = [dvOwner EXCEPT !.signed = TRUE]
    /\ dvLast' = Call("identity", "d", "Ok")
    /\ UNCHANGED <<dvDev, dvCell, olmVars, mgVars, qrVars, stVars, ccVars>>

---------------------------------------------------------------------------
(* SqliteStore: the database file and the store opened on it. Devices are the
   one (user_id, device_id) pair the devices above carry; accounts, sessions,
   inbound group sessions and tracked users follow sqlite.rs *)

\* how often the store is dropped and opened again; load_account runs at most
\* once on each opened store
MaxReopen == 1

\* readings of the monotonic clock (Instant) between two boots
MaxClock == 1

\* `device.trust_state() as i64`
TrustToInt(state) == CHOOSE i \in 0 .. 3 : LocalTrust[i + 1] = state

TrustFromIntShifted(i) == IF i \in 1 .. 4 THEN LocalTrust[i] ELSE "Unset"

\* impl From<i64> for LocalTrust
TrustFromInt(i) == IF i \in 0 .. 3 THEN LocalTrust[i + 1] ELSE "Unset"

\* the device ids a store is opened for (the user id is the same for all)
StoreDeviceIds == <<"DEVICEID", "OTHERDEVICE">>

\* pickle_passphrase: "" stands for None
Passphrases == <<"", "secret_passphrase">>

\* SqliteStore::get_pickle_mode
GetPickleMode(passphrase) ==
    IF passphrase = "" THEN <<"Unencrypted">> ELSE <<"Encrypted", passphrase>>

\* x.pickle(mode) and X::from_pickle(pickle, mode, ..): unpickling gives the
\* object back under the mode it was pickled with, and fails under any other
Pickle(object, mode) == [object |-> object, mode |-> mode]
FromPickle(pickle, mode) == pickle.mode = mode

\* the accounts the application holds: identity keys and the shared flag
Accounts == {[identity_keys |-> k, shared |-> b] : k \in {"alice", "alice2"}, b \in BOOLEAN}

\* the Olm sessions the application holds, by sender key; created at clock 0
SenderKeys == {"K1", "K2"}
Sessions ==
    {[session_id |-> "s1", sender_key |-> "K1", creation_time |-> 0],
     [session_id |-> "s2", sender_key |-> "K1", creation_time |-> 0],
     [session_id |-> "s3", sender_key |-> "K2", creation_time |-> 0]}

\* the inbound group sessions the application holds; g1 has been received for
\* two rooms
InboundGroupSessions ==
    {[session_id |-> "g1", sender_key |-> "K1", room_id |-> "!r1"],
     [session_id |-> "g1", sender_key |-> "K1", room_id |-> "!r2"],
     [session_id |-> "g2", sender_key |-> "K1", room_id |-> "!r1"]}

\* the key triples looked up: those of the sessions and one no session has
GroupKeys ==
    {<<g.room_id, g.sender_key, g.session_id>> : g \in InboundGroupSessions}
        \cup {<<"!r2", "K1", "g2">>}

UserIds == {"@alice", "@bob", "@carol"}

\* a row of the devices table with its rows in algorithms and device_keys
NoRow == [some |-> FALSE, user_id |-> "", device_id |-> "", display_name |-> 0,
          trust_state |-> 3, algorithms |-> {}, keys |-> 0]

\* SqliteStore::open_helper: no account id, empty caches
OpenHelper(device_id, passphrase) ==
    [device_id |-> device_id, passphrase |-> passphrase, account_id |-> 0,
     devices |-> NoDevice,
     sessions |-> [k \in SenderKeys |-> << >>],
     inbound_group_sessions |-> {},
     tracked_users |-> {}]

\* create_tables on a new file
EmptyDb == [accounts |-> << >>, device |-> NoRow, sessions |-> << >>,
            inbound_group_sessions |-> << >>]

NoSaved == [some |-> FALSE, device |-> NoDevice, cell |-> FreshCell]

NoHist == [reopens |-> 0, loaded |-> FALSE, saved_deleted |-> FALSE, saved |-> NoSaved,
           clock |-> 0, rebooted |-> FALSE, account_saved |-> {}, session_saved |-> {},
           group_saved |-> {}, tracked_added |-> {}]

StoreIdle ==
    /\ stDb = EmptyDb
    /\ stMem = OpenHelper(StoreDeviceIds[1], Passphrases[1])
    /\ stHist = NoHist

\* a store created with or without a passphrase
StoreInit ==
    /\ stDb = EmptyDb
    /\ \E passphrase \in {Passphrases[i] : i \in 1 .. 2} :
          stMem = OpenHelper(StoreDeviceIds[1], passphrase)
    /\ stHist = NoHist

\* SELECT id FROM accounts WHERE user_id = ? and device_id = ? (0: no row)
AccountRowId(accounts, device_id) ==
    IF \E i \in 1 .. Len(accounts) : accounts[i].device_id = device_id
    THEN CHOOSE i \in 1 .. Len(accounts) : accounts[i].device_id = device_id
    ELSE 0

InsertAccount(accounts, row) == Append(accounts, row)

\* INSERT INTO accounts .. ON CONFLICT(user_id, device_id) DO UPDATE SET pickle, shared
UpsertAccount(accounts, row) ==
    LET id == AccountRowId(accounts, row.device_id)
    IN  IF id = 0 THEN Append(accounts, row)
        ELSE [accounts EXCEPT ![id] = row]

\* SqliteStore::save_device_helper: upsert of display_name and trust_state, INSERT
\* OR IGNORE of every algorithm and of the key under UNIQUE(device_id, algorithm)
SaveDeviceHelper(row, device, cell) ==
    [some |-> TRUE, user_id |-> device.user_id, device_id |-> device.device_id,
     display_name |-> device.display_name,
     trust_state |-> TrustToInt(cell.trust),
     algorithms |-> row.algorithms \cup device.algorithms,
     keys |-> IF row.keys = 0 THEN device.keys ELSE row.keys]

\* SqliteStore::load_devices: Device::new from the columns of the row
LoadDevices(row, cell) ==
    IF row.some
    THEN [NoDevice EXCEPT !.some = TRUE, !.user_id = row.user_id,
                          !.device_id = row.device_id,
                          !.display_name = row.display_name,
                          !.algorithms = row.algorithms, !.keys = row.keys,
                          !.cell = cell, !.made = "load"]
    ELSE NoDevice

\* the atomics Device::new creates: the trust state of the row, deleted false
LoadedCell(row) == [deleted |-> FALSE, trust |-> TrustFromInt(row.trust_state)]

\* REPLACE INTO sessions: the row with this session_id (primary key) is deleted,
\* the new row is inserted
ReplaceSession(rows, row) ==
    LET Others(r) == r.session_id # row.session_id
    IN  Append(SelectSeq(rows, Others), row)

LoadSessionsForUnchecked(mem, db, sender_key, now) == [res |-> "Ok", sessions |-> << >>]

\* SqliteStore::load_sessions_for: the sessions of the rows of this account and
\* sender key; creation_time and last_use_time are the clock reading minus the
\* stored age, SessionTimestampError if the clock reads less than the age
LoadSessionsFor(mem, db, sender_key, now) ==
    LET Mine(r) == r.account_id = mem.account_id /\ r.sender_key = sender_key
        rows == SelectSeq(db.sessions, Mine)
        mode == GetPickleMode(mem.passphrase)
    IN  IF mem.account_id = 0 THEN [res |-> "AccountUnset", sessions |-> << >>]
        ELSE IF \E i \in 1 .. Len(rows) : rows[i].creation_time > now
        THEN [res |-> "SessionTimestampError", sessions |-> << >>]
        ELSE IF \E i \in 1 .. Len(rows) : ~FromPickle(rows[i].pickle, mode)
        THEN [res |-> "OlmSessionError", sessions |-> << >>]
        ELSE [res |-> "Ok",
              sessions |-> [i \in 1 .. Len(rows) |->
                              [session_id |-> rows[i].pickle.object,
                               sender_key |-> rows[i].sender_key,
                               creation_time |-> now - rows[i].creation_time]]]

LazyLoadSessionsAlways(mem, db, sender_key, now) ==
    LET r == LoadSessionsFor(mem, db, sender_key, now)
    IN  IF r.res # "Ok" THEN [res |-> r.res, mem |-> mem]
        ELSE [res |-> "Ok", mem |-> [mem EXCEPT !.sessions[sender_key] = r.sessions]]

\* SqliteStore::lazy_load_sessions: the database is read when the cache has no
\* entry for the sender key; an empty result is not cached
LazyLoadSessions(mem, db, sender_key, now) ==
    IF mem.sessions[sender_key] # << >> THEN [res |-> "Ok", mem |-> mem]
    ELSE LET r == LoadSessionsFor(mem, db, sender_key, now)
         IN  IF r.res # "Ok" THEN [res |-> r.res, mem |-> mem]
             ELSE [res |-> "Ok",
                   mem |-> [mem EXCEPT !.sessions[sender_key] = r.sessions]]

\* SessionStore::add: the sender's sessions are an ordered set
SessionStoreAdd(entries, session) ==
    IF \E i \in 1 .. Len(entries[session.sender_key]) :
          entries[session.sender_key][i].session_id = session.session_id
    THEN entries
    ELSE [entries EXCEPT ![session.sender_key] = Append(@, session)]

\* GroupSessionStore::add and ::get: sessions by room id, sender key, session id
GroupKey(session) == <<session.room_id, session.sender_key, session.session_id>>
GroupSessionStoreAdd(entries, session) ==
    {s \in entries : GroupKey(s) # GroupKey(session)} \cup {session}
GroupSessionStoreGet(entries, key) == {s \in entries : GroupKey(s) = key}

\* INSERT INTO inbound_group_sessions .. ON CONFLICT(session_id) DO UPDATE SET pickle
UpsertGroupSession(rows, row) ==
    IF \E i \in 1 .. Len(rows) : rows[i].session_id = row.session_id
    THEN [i \in 1 .. Len(rows) |->
            IF rows[i].session_id = row.session_id
            THEN [rows[i] EXCEPT !.pickle = row.pickle] ELSE rows[i]]
    ELSE Append(rows, row)

\* SqliteStore::load_inbound_group_sessions: the sessions of the rows of this
\* account, as a set
LoadInboundGroupSessions(mem, db) ==
    {[session_id |-> db.inbound_group_sessions[i].pickle.object,
      sender_key |-> db.inbound_group_sessions[i].sender_key,
      room_id |-> db.inbound_group_sessions[i].room_id] :
        i \in {j \in 1 .. Len(db.inbound_group_sessions) :
                 db.inbound_group_sessions[j].account_id = mem.account_id}}

\* a call on the store: what went in, what came back
StoreCall(op, res, arg, out) ==
    [op |-> op, h |-> "d", res |-> res, device_keys |-> NoDevice, state |-> "Unset",
     arg |-> arg, out |-> out]

\* store.save_account(account)
StoreSaveAccount(account) ==
    /\ LET mode == GetPickleMode(stMem.passphrase)
           row == [device_id |-> stMem.device_id, pickle |-> Pickle(account.identity_keys, mode),
                   shared |-> account.shared]
           accounts == UpsertAccount(stDb.accounts, row)
       IN  /\ stDb' = [stDb EXCEPT !.accounts = accounts]
           /\ stMem' = [stMem EXCEPT !.account_id = AccountRowId(accounts, stMem.device_id)]
    /\ stHist' = [stHist EXCEPT !.account_saved =
                     {p \in @ : p[1] # stMem.device_id} \cup {<<stMem.device_id, account>>}]
    /\ dvLast' = StoreCall("save_account", "Ok", <<account>>, << >>)
    /\ UNCHANGED <<dvDev, dvCell, dvOwn, dvOwner, olmVars, mgVars, qrVars, ccVars>>

\* store.save_device(device) with the device handle h holds: the cache takes the
\* clone first, then the helper writes the row unless no account is set
StoreSaveDevice(h) ==
    /\ dvDev[h].some
    /\ stMem' = [stMem EXCEPT !.devices = dvDev[h]]
    /\ IF stMem.account_id # 0
       THEN /\ stDb' = [stDb EXCEPT !.device =
                           SaveDeviceHelper(stDb.device, dvDev[h], dvCell[dvDev[h].cell])]
            /\ stHist' = [stHist EXCEPT
                            !.saved_deleted = dvCell[dvDev[h].cell].deleted,
                            !.saved = [some |-> TRUE, device |-> dvDev[h],
                                       cell |-> dvCell[dvDev[h].cell]]]
            /\ dvLast' = StoreCall("save_device", "Ok", <<h>>, << >>)
       ELSE /\ UNCHANGED <<stDb, stHist>>
            /\ dvLast' = StoreCall("save_device", "AccountUnset", <<h>>, << >>)
    /\ UNCHANGED <<dvDev, dvCell, dvOwn, dvOwner, olmVars, mgVars, qrVars, ccVars>>

\* Device::set_local_trust: set_trust_state, then the changed device is saved
DeviceSetLocalTrust(h, state) ==
    /\ dvDev[h].some
    /\ dvCell' = [dvCell EXCEPT ![dvDev[h].cell].trust = state]
    /\ stMem' = [stMem EXCEPT !.devices = dvDev[h]]
    /\ IF stMem.account_id # 0
       THEN /\ stDb' = [stDb EXCEPT !.device =
                           SaveDeviceHelper(stDb.device, dvDev[h], dvCell'[dvDev[h].cell])]
            /\ stHist' = [stHist EXCEPT
                            !.saved_deleted = dvCell[dvDev[h].cell].deleted,
                            !.saved = [some |-> TRUE, device |-> dvDev[h],
                                       cell |-> dvCell'[dvDev[h].cell]]]
            /\ dvLast' = [StoreCall("set_local_trust", "Ok", <<h>>, << >>)
                            EXCEPT !.h = h, !.state = state]
       ELSE /\ UNCHANGED <<stDb, stHist>>
            /\ dvLast' = [StoreCall("set_local_trust", "AccountUnset", <<h>>, << >>)
                            EXCEPT !.h = h, !.state = state]
    /\ UNCHANGED <<dvDev, dvOwn, dvOwner, olmVars, mgVars, qrVars, ccVars>>

\* drop(store) and SqliteStore::open / open_with_passphrase on the same path, for
\* the given device id; reboot: the machine was restarted in between, the
\* monotonic clock starts again
StoreOpen(device_id, passphrase, reboot) ==
    /\ stHist.reopens < MaxReopen
    /\ stMem' = OpenHelper(device_id, passphrase)
    /\ stHist' = [stHist EXCEPT !.reopens = @ + 1, !.loaded = FALSE,
                                !.clock = IF reboot THEN 0 ELSE @,
                                !.rebooted = @ \/ reboot,
                                !.tracked_added = {}]
    /\ dvLast' = StoreCall("open", "Ok", <<device_id, passphrase, reboot>>, << >>)
    /\ UNCHANGED <<dvDev, dvCell, dvOwn, dvOwner, stDb, olmVars, mgVars, qrVars, ccVars>>

\* the store is dropped and opened again as it was opened before
StoreReopen == StoreOpen(stMem.device_id, stMem.passphrase, FALSE)

\* the monotonic clock advances
ClockTick ==
    /\ stHist.clock < MaxClock
    /\ stHist' = [stHist EXCEPT !.clock = @ + 1]
    /\ dvLast' = StoreCall("tick", "Ok", << >>, << >>)
    /\ UNCHANGED <<dvDev, dvCell, dvOwn, dvOwner, stDb, stMem, olmVars, mgVars, qrVars, ccVars>>

\* the row load_account selects: the one of the store's user id and device id
LoadAccountRow(mem, db) == AccountRowId(db.accounts, mem.device_id)

\* store.load_account(): None without an account row; otherwise the account id is
\* set, the account unpickled, the group sessions added to their cache and the
\* devices cache replaced by the devices built from the rows
StoreLoadAccount ==
    /\ ~stHist.loaded
    /\ stHist' = [stHist EXCEPT !.loaded = TRUE]
    /\ LET id == LoadAccountRow(stMem, stDb)
           mem == [stMem EXCEPT !.account_id = id]
       IN  IF id = 0
           THEN /\ UNCHANGED <<stMem, dvCell>>
                /\ dvLast' = StoreCall("load_account", "None", << >>, << >>)
           ELSE IF ~FromPickle(stDb.accounts[id].pickle, GetPickleMode(stMem.passphrase))
           THEN /\ stMem' = mem
                /\ dvCell' = dvCell
                /\ dvLast' = StoreCall("load_account", "OlmAccountError", << >>, << >>)
           ELSE /\ stMem' = [mem EXCEPT
                               !.inbound_group_sessions =
                                   @ \cup LoadInboundGroupSessions(mem, stDb),
                               !.devices = LoadDevices(stDb.device, Len(dvCell) + 1)]
                /\ dvCell' = IF stDb.device.some
                             THEN Append(dvCell, LoadedCell(stDb.device)) ELSE dvCell
                /\ dvLast' = StoreCall("load_account", "Some", << >>,
                                <<[identity_keys |-> stDb.accounts[id].pickle.object,
                                   shared |-> stDb.accounts[id].shared]>>)
    /\ UNCHANGED <<dvDev, dvOwn, dvOwner, stDb, olmVars, mgVars, qrVars, ccVars>>

\* store.get_device(user_id, device_id): a clone of the cached device, held by c
StoreGetDevice ==
    /\ IF stMem.devices.some
       THEN /\ dvDev' = [dvDev EXCEPT !["c"] = stMem.devices]
            /\ dvLast' = [StoreCall("get_device", "Some", << >>, << >>) EXCEPT !.h = "c"]
       ELSE /\ dvDev' = dvDev
            /\ dvLast' = [StoreCall("get_device", "None", << >>, << >>) EXCEPT !.h = "c"]
    /\ UNCHANGED <<dvCell, dvOwn, dvOwner, stVars, olmVars, mgVars, qrVars, ccVars>>

\* store.save_session(session): lazy load of the sender's sessions, the session
\* joins the cache, then the row is written unless no account is set
StoreSaveSession(session) ==
    /\ LET age == stHist.clock - session.creation_time
           l == LazyLoadSessions(stMem, stDb, session.sender_key, stHist.clock)
           mem == [l.mem EXCEPT !.sessions = SessionStoreAdd(@, session)]
           row == [session_id |-> session.session_id, account_id |-> stMem.account_id,
                   creation_time |-> age, sender_key |-> session.sender_key,
                   pickle |-> Pickle(session.session_id, GetPickleMode(stMem.passphrase))]
       IN  IF l.res # "Ok"
           THEN /\ UNCHANGED <<stMem, stDb>>
                /\ dvLast' = StoreCall("save_session", l.res, <<session>>, << >>)
           ELSE IF stMem.account_id = 0
           THEN /\ stMem' = mem
                /\ stDb' = stDb
                /\ dvLast' = StoreCall("save_session", "AccountUnset", <<session>>, << >>)
           ELSE /\ stMem' = mem
                /\ stDb' = [stDb EXCEPT !.sessions = ReplaceSession(@, row)]
                /\ dvLast' = StoreCall("save_session", "Ok", <<session>>, << >>)
    /\ stHist' = IF dvLast'.res = "Ok"
                 THEN [stHist EXCEPT !.session_saved =
                          @ \cup {[session_id |-> session.session_id,
                                   sender_key |-> session.sender_key]}]
                 ELSE stHist
    /\ UNCHANGED <<dvDev, dvCell, dvOwn, dvOwner, olmVars, mgVars, qrVars, ccVars>>

\* store.get_sessions(sender_key): lazy load, then the cached list (None if the
\* cache has no entry)
StoreGetSessions(sender_key) ==
    /\ LET l == LazyLoadSessions(stMem, stDb, sender_key, stHist.clock)
       IN  /\ stMem' = l.mem
           /\ dvLast' = StoreCall("get_sessions",
                            IF l.res # "Ok" THEN l.res
                            ELSE IF l.mem.sessions[sender_key] = << >> THEN "None"
                            ELSE "Some",
                            <<sender_key>>,
                            IF l.res = "Ok" THEN l.mem.sessions[sender_key] ELSE << >>)
    /\ UNCHANGED <<dvDev, dvCell, dvOwn, dvOwner, stDb, stHist, olmVars, mgVars, qrVars, ccVars>>

\* what session.encrypt(..) returns for a session: the encrypted content names
\* the session that made it
Ciphertext(session) == <<"ciphertext", session.session_id>>

ReadOnlyDeviceEncryptLast(curve_key, mem, db, now) ==
    IF curve_key = "none"
    THEN [res |-> "MissingSenderKey", out |-> << >>, mem |-> mem]
    ELSE LET l == LazyLoadSessions(mem, db, curve_key, now)
             sessions == l.mem.sessions[curve_key]
         IN  IF l.res # "Ok" THEN [res |-> l.res, out |-> << >>, mem |-> l.mem]
             ELSE IF sessions = << >>
             THEN [res |-> "MissingSession", out |-> << >>, mem |-> l.mem]
             ELSE [res |-> "Ok", mem |-> l.mem,
                   out |-> <<sessions[Len(sessions)], Ciphertext(sessions[Len(sessions)])>>]

\* ReadOnlyDevice::encrypt for a device whose Curve25519 key is curve_key
\* ("none": it has none): MissingSenderKey before the store is asked; an error
\* of store.get_sessions is passed on; MissingSession if it answers None or the
\* list is empty; otherwise sessions.get(0) encrypts and is returned
ReadOnlyDeviceEncrypt(curve_key, mem, db, now) ==
    IF curve_key = "none"
    THEN [res |-> "MissingSenderKey", out |-> << >>, mem |-> mem]
    ELSE LET l == LazyLoadSessions(mem, db, curve_key, now)
             sessions == l.mem.sessions[curve_key]
         IN  IF l.res # "Ok" THEN [res |-> l.res, out |-> << >>, mem |-> l.mem]
             ELSE IF sessions = << >>
             THEN [res |-> "MissingSession", out |-> << >>, mem |-> l.mem]
             ELSE [res |-> "Ok", mem |-> l.mem,
                   out |-> <<sessions[1], Ciphertext(sessions[1])>>]

\* device.encrypt(&store, event_type, content)
DeviceEncrypt(curve_key) ==
    /\ LET e == ReadOnlyDeviceEncrypt(curve_key, stMem, stDb, stHist.clock)
       IN  /\ stMem' = e.mem
           /\ dvLast' = StoreCall("encrypt", e.res, <<curve_key>>, e.out)
    /\ UNCHANGED <<dvDev, dvCell, dvOwn, dvOwner, stDb, stHist, olmVars, mgVars, qrVars, ccVars>>

\* store.save_inbound_group_session(session): the row is written unless no
\* account is set, then the session joins the cache
StoreSaveInboundGroupSession(session) ==
    /\ LET row == [session_id |-> session.session_id, account_id |-> stMem.account_id,
                   sender_key |-> session.sender_key, room_id |-> session.room_id,
                   pickle |-> Pickle(session.session_id, GetPickleMode(stMem.passphrase))]
       IN  IF stMem.account_id = 0
           THEN /\ UNCHANGED <<stMem, stDb>>
                /\ dvLast' = StoreCall("save_inbound_group_session", "AccountUnset",
                                       <<session>>, << >>)
           ELSE /\ stDb' = [stDb EXCEPT !.inbound_group_sessions = UpsertGroupSession(@, row)]
                /\ stMem' = [stMem EXCEPT !.inbound_group_sessions =
                                              GroupSessionStoreAdd(@, session)]
                /\ dvLast' = StoreCall("save_inbound_group_session", "Ok",
                                       <<session>>, << >>)
    /\ stHist' = IF stMem.account_id = 0 THEN stHist
                 ELSE [stHist EXCEPT !.group_saved = @ \cup {session}]
    /\ UNCHANGED <<dvDev, dvCell, dvOwn, dvOwner, olmVars, mgVars, qrVars, ccVars>>

\* store.get_inbound_group_session(room_id, sender_key, session_id): the cache only
StoreGetInboundGroupSession(key) ==
    /\ LET found == GroupSessionStoreGet(stMem.inbound_group_sessions, key)
       IN  dvLast' = StoreCall("get_inbound_group_session",
                               IF found = {} THEN "None" ELSE "Some", key,
                               IF found = {} THEN << >> ELSE <<CHOOSE s \in found : TRUE>>)
    /\ UNCHANGED <<dvDev, dvCell, dvOwn, dvOwner, stVars, olmVars, mgVars, qrVars, ccVars>>

AddUserForTrackingAlwaysNew(users, user) == [users |-> users \cup {user}, inserted |-> TRUE]

\* HashSet::insert on tracked_users
AddUserForTracking(users, user) ==
    [users |-> users \cup {user}, inserted |-> user \notin users]

\* store.add_user_for_tracking(user): memory only
StoreAddUserForTracking(user) ==
    /\ LET r == AddUserForTracking(stMem.tracked_users, user)
       IN  /\ stMem' = [stMem EXCEPT !.tracked_users = r.users]
           /\ dvLast' = StoreCall("add_user_for_tracking", "Ok", <<user>>, <<r.inserted>>)
    /\ stHist' = [stHist EXCEPT !.tracked_added = @ \cup {user}]
    /\ UNCHANGED <<dvDev, dvCell, dvOwn, dvOwner, stDb, olmVars, mgVars, qrVars, ccVars>>

---------------------------------------------------------------------------
(* Concurrent callers: two tasks that encrypt for a device, and two tasks that
   save a device to the same store. A step is what a task does between two
   points at which it may be suspended (.await). *)

MaxEncrypt == 2
MaxSaves == 1

Callers == {"t1", "t2"}

MutexAlwaysFree(lock) == TRUE

\* Mutex::lock().await completes when nobody holds the mutex
MutexFree(lock) == lock = "none"

EncIdle ==
    /\ encPc = [c \in Callers |-> "idle"]
    /\ encPeer = [c \in Callers |-> "K1"]
    /\ encLock = [k \in SenderKeys |-> "none"]
    /\ encDone = [c \in Callers |-> 0]

\* ReadOnlyDevice::encrypt, first part: the device's Curve25519 key and
\* store.get_sessions(sender_key), which gives the shared list of its sessions
EncryptGetSessions(c, sender_key) ==
    /\ encPc[c] = "idle" /\ encDone[c] < MaxEncrypt
    /\ encPc' = [encPc EXCEPT ![c] = "lock"]
    /\ encPeer' = [encPeer EXCEPT ![c] = sender_key]
    /\ UNCHANGED <<maVars, encLock, encDone, sdVars, olmVars, mgVars, qrVars, dvVars, stVars>>

\* let sessions = s.lock().await
EncryptLock(c) ==
    /\ encPc[c] = "lock" /\ MutexFree(encLock[encPeer[c]])
    /\ encLock' = [encLock EXCEPT ![encPeer[c]] = c]
    /\ encPc' = [encPc EXCEPT ![c] = "locked"]
    /\ UNCHANGED <<maVars, encPeer, encDone, sdVars, olmVars, mgVars, qrVars, dvVars, stVars>>

\* sessions.get(0).cloned(), the guard is dropped at the end of the block, and
\* session.encrypt(..) is called on the clone
EncryptCloneFirst(c) ==
    /\ encPc[c] = "locked"
    /\ encLock' = [encLock EXCEPT ![encPeer[c]] = "none"]
    /\ encPc' = [encPc EXCEPT ![c] = "encrypting"]
    /\ UNCHANGED <<maVars, encPeer, encDone, sdVars, olmVars, mgVars, qrVars, dvVars, stVars>>

\* session.encrypt(..).await has returned: Ok((session, message))
EncryptReturn(c) ==
    /\ encPc[c] = "encrypting"
    /\ encPc' = [encPc EXCEPT ![c] = "idle"]
    /\ encDone' = [encDone EXCEPT ![c] = @ + 1]
    /\ UNCHANGED <<maVars, encPeer, encLock, sdVars, olmVars, mgVars, qrVars, dvVars, stVars>>

SdIdle ==
    /\ sdPc = [t \in Callers |-> "idle"]
    /\ sdTodo = [t \in Callers |-> {}]
    /\ sdLock = "none"
    /\ sdLog = << >>
    /\ sdDone = [t \in Callers |-> 0]

\* the accounts of two stores opened on one database file
AccountIds == {1, 2}

\* the devices the two stores save: the same user id and device id, with one
\* or the other algorithm list, display name and Ed25519 key
SharedDevices ==
    {TryFromDeviceKeys(device_keys, 0).device :
        device_keys \in {d \in DeviceKeysInputs :
                            /\ d.keys # 0 /\ d.signatures.device = d.keys
                            /\ ~d.signatures.identity}}

NoShared == [last |-> NoDevice, algorithms |-> {}, keys |-> {}]

MaIdle ==
    /\ maDb = [devices |-> << >>, algorithms |-> {}, device_keys |-> {}]
    /\ maSaved = [a \in AccountIds |-> NoShared]
    /\ maLast = [op |-> "none", account_id |-> 0, row |-> 0, out |-> {}]

\* INSERT INTO devices .. ON CONFLICT(account_id, user_id, device_id) DO UPDATE
\* SET display_name, trust_state
UpsertDevice(devices, account_id, device) ==
    LET row == [account_id |-> account_id, user_id |-> device.user_id,
                device_id |-> device.device_id, display_name |-> device.display_name,
                trust_state |-> TrustToInt(FreshCell.trust)]
        hit == {i \in 1 .. Len(devices) :
                   /\ devices[i].account_id = account_id
                   /\ devices[i].user_id = device.user_id
                   /\ devices[i].device_id = device.device_id}
    IN  IF hit = {} THEN Append(devices, row)
        ELSE [i \in 1 .. Len(devices) |-> IF i \in hit THEN row ELSE devices[i]]

\* SELECT id FROM devices WHERE user_id = ? and device_id = ?: the ids of the
\* rows the statement matches; fetch_one takes one of them, and the statement
\* has no ORDER BY
DeviceRowIds(devices, user_id, device_id) ==
    {i \in 1 .. Len(devices) :
        devices[i].user_id = user_id /\ devices[i].device_id = device_id}

\* the two loops of save_device_helper: INSERT OR IGNORE INTO algorithms and
\* INTO device_keys with the row id selected, under UNIQUE(device_id, algorithm)
InsertAlgorithmsAndKeys(db, device_row_id, device) ==
    [db EXCEPT
       !.algorithms = @ \cup {[device_id |-> device_row_id, algorithm |-> a] :
                                 a \in device.algorithms},
       !.device_keys = IF \E k \in @ : k.device_id = device_row_id THEN @
                       ELSE @ \cup {[device_id |-> device_row_id, key |-> device.keys]}]

\* SqliteStore::load_devices: the devices rows of the account, each with the
\* algorithms and device_keys rows that reference its id
LoadDevicesOf(db, account_id) ==
    {[NoDevice EXCEPT
        !.some = TRUE, !.user_id = db.devices[i].user_id,
        !.device_id = db.devices[i].device_id,
        !.display_name = db.devices[i].display_name,
        !.algorithms = {r.algorithm : r \in {x \in db.algorithms : x.device_id = i}},
        !.keys = IF \E k \in db.device_keys : k.device_id = i
                 THEN (CHOOSE k \in db.device_keys : k.device_id = i).key ELSE 0,
        !.made = "load"] :
        i \in {j \in 1 .. Len(db.devices) : db.devices[j].account_id = account_id}}

\* save_device_helper(device) of the store whose account is account_id
SharedSaveDevice(account_id, device) ==
    /\ LET devices == UpsertDevice(maDb.devices, account_id, device)
       IN  \E id \in DeviceRowIds(devices, device.user_id, device.device_id) :
              /\ maDb' = InsertAlgorithmsAndKeys([maDb EXCEPT !.devices = devices],
                                                 id, device)
              /\ maLast' = [op |-> "save_device", account_id |-> account_id,
                            row |-> id, out |-> {device}]
    /\ maSaved' = [maSaved EXCEPT ![account_id] =
                      [last |-> device, algorithms |-> @.algorithms \cup device.algorithms,
                       keys |-> @.keys \cup {device.keys}]]
    /\ UNCHANGED <<encVars, sdVars, olmVars, mgVars, qrVars, dvVars, stVars>>

\* load_devices() of the store whose account is account_id
SharedLoadDevices(account_id) ==
    /\ maLast' = [op |-> "load_devices", account_id |-> account_id, row |-> 0,
                  out |-> LoadDevicesOf(maDb, account_id)]
    /\ UNCHANGED <<maDb, maSaved, encVars, sdVars, olmVars, mgVars, qrVars, dvVars, stVars>>

ConcIdle == EncIdle /\ SdIdle /\ MaIdle

\* the device each task saves: the same device, with other algorithms and
\* another display name in the second task
TaskDevice(t) ==
    LET v == IF t = "t1" THEN 1 ELSE 2
    IN  TryFromDeviceKeys([user_id |-> "@user", device_id |-> "DEVICEID",
                           algorithms |-> AlgorithmLists[v], keys |-> 1,
                           signatures |-> [device |-> 1, identity |-> FALSE],
                           display_name |-> v], 0).device

\* a statement executed through the connection
Statement(t, stmt) == [task |-> t, stmt |-> stmt]

\* SqliteStore::save_device and the start of save_device_helper: the cache
\* takes the clone, then AccountUnset unless an account is set
SaveDeviceStart(t) ==
    /\ sdPc[t] = "idle" /\ sdDone[t] < MaxSaves
    /\ stMem' = [stMem EXCEPT !.devices = TaskDevice(t)]
    /\ IF stMem.account_id = 0
       THEN /\ dvLast' = StoreCall("save_device", "AccountUnset", <<t>>, << >>)
            /\ sdDone' = [sdDone EXCEPT ![t] = @ + 1]
            /\ sdPc' = sdPc
       ELSE /\ dvLast' = StoreCall("save_device", "Pending", <<t>>, << >>)
            /\ sdPc' = [sdPc EXCEPT ![t] = "lock"]
            /\ sdDone' = sdDone
    /\ UNCHANGED <<maVars, sdTodo, sdLock, sdLog, stDb, stHist, dvDev, dvCell, dvOwn, dvOwner,
                   encVars, olmVars, mgVars, qrVars>>

\* let mut connection = self.connection.lock().await
SaveDeviceLock(t) ==
    /\ sdPc[t] = "lock" /\ MutexFree(sdLock)
    /\ sdLock' = t
    /\ sdPc' = [sdPc EXCEPT ![t] = "upsert"]
    /\ UNCHANGED <<maVars, sdTodo, sdLog, sdDone, encVars, olmVars, mgVars, qrVars, dvVars, stVars>>

\* INSERT INTO devices .. ON CONFLICT .. DO UPDATE SET display_name, trust_state
SaveDeviceUpsert(t) ==
    /\ sdPc[t] = "upsert"
    /\ stDb' = [stDb EXCEPT !.device =
                    [@ EXCEPT !.some = TRUE, !.user_id = TaskDevice(t).user_id,
                              !.device_id = TaskDevice(t).device_id,
                              !.display_name = TaskDevice(t).display_name,
                              !.trust_state = TrustToInt(FreshCell.trust)]]
    /\ sdLog' = Append(sdLog, Statement(t, "upsert"))
    /\ sdPc' = [sdPc EXCEPT ![t] = "select"]
    /\ UNCHANGED <<maVars, sdTodo, sdLock, sdDone, stMem, stHist, encVars, olmVars, mgVars, qrVars,
                   dvVars>>

\* SELECT id FROM devices WHERE user_id = ? and device_id = ?
SaveDeviceSelect(t) ==
    /\ sdPc[t] = "select"
    /\ sdLog' = Append(sdLog, Statement(t, "select"))
    /\ sdTodo' = [sdTodo EXCEPT ![t] = TaskDevice(t).algorithms]
    /\ sdPc' = [sdPc EXCEPT ![t] = "algorithms"]
    /\ UNCHANGED <<maVars, sdLock, sdDone, encVars, olmVars, mgVars, qrVars, dvVars, stVars>>

\* for algorithm in device.algorithms(): INSERT OR IGNORE INTO algorithms
SaveDeviceAlgorithm(t) ==
    /\ sdPc[t] = "algorithms"
    /\ \E algorithm \in sdTodo[t] :
          /\ stDb' = [stDb EXCEPT !.device.algorithms = @ \cup {algorithm}]
          /\ sdTodo' = [sdTodo EXCEPT ![t] = @ \ {algorithm}]
          /\ sdPc' = [sdPc EXCEPT ![t] = IF sdTodo[t] = {algorithm} THEN "keys" ELSE @]
    /\ sdLog' = Append(sdLog, Statement(t, "algorithm"))
    /\ UNCHANGED <<maVars, sdLock, sdDone, stMem, stHist, encVars, olmVars, mgVars, qrVars, dvVars>>

\* for (key_algorithm, key) in device.keys(): INSERT OR IGNORE INTO device_keys;
\* Ok(()), and the guard of the connection is dropped
SaveDeviceKey(t) ==
    /\ sdPc[t] = "keys"
    /\ stDb' = [stDb EXCEPT !.device.keys = IF @ = 0 THEN TaskDevice(t).keys ELSE @]
    /\ sdLog' = Append(sdLog, Statement(t, "key"))
    /\ sdLock' = IF sdLock = t THEN "none" ELSE sdLock
    /\ sdPc' = [sdPc EXCEPT ![t] = "idle"]
    /\ sdDone' = [sdDone EXCEPT ![t] = @ + 1]
    /\ stHist' = [stHist EXCEPT !.saved = [some |-> TRUE, device |-> TaskDevice(t),
                                           cell |-> FreshCell]]
    /\ dvLast' = StoreCall("save_device", "Ok", <<t>>, << >>)
    /\ UNCHANGED <<maVars, sdTodo, stMem, dvDev, dvCell, dvOwn, dvOwner, encVars, olmVars, mgVars,
                   qrVars>>

\* the future of save_device is dropped, or a statement returns an error
\* (.await?), while the task is between two statements: the guard of the
\* connection is dropped with it; no transaction was opened, so every statement
\* executed so far stays committed
SaveDeviceCancel(t) ==
    /\ sdPc[t] \in {"select", "algorithms", "keys"}
    /\ sdLock' = IF sdLock = t THEN "none" ELSE sdLock
    /\ sdPc' = [sdPc EXCEPT ![t] = "idle"]
    /\ sdTodo' = [sdTodo EXCEPT ![t] = {}]
    /\ sdDone' = [sdDone EXCEPT ![t] = @ + 1]
    /\ dvLast' = StoreCall("save_device", "Cancelled", <<t>>, << >>)
    /\ UNCHANGED <<maVars, sdLog, stVars, dvDev, dvCell, dvOwn, dvOwner, encVars, olmVars, mgVars,
                   qrVars>>

---------------------------------------------------------------------------
(* Specifications: one per subsystem; the others stand still *)

InitOlm == OlmInit /\ MgInit /\ QrIdle /\ DvInit /\ StoreIdle /\ ConcIdle
NextOlm ==
    \/ \E p \in Parties : Encrypt(p)
    \/ \E p \in Parties, i \in 1 .. MaxSend : Deliver(p, i)
    \/ \E p \in Parties :
         \E rk \in {EvilKey, sess[p].receiving_ratchet.rk}, idx \in 0 .. 1 :
            Tamper(p, Forged(rk, idx))
    \/ \E p \in Parties : Tamper(p, Garbage)
SpecOlm == InitOlm /\ [][NextOlm]_vars

\* the same channel with an honest transport: messages are delivered in any
\* order, none is forged
InitChain == OlmInit /\ MgInit /\ QrIdle /\ DvInit /\ StoreIdle /\ ConcIdle
NextChain ==
    \/ \E p \in Parties : Encrypt(p)
    \/ \E p \in Parties, i \in 1 .. MaxSend : Deliver(p, i)
SpecChain == InitChain /\ [][NextChain]_vars

InitMegolm == OlmInit /\ MgInit /\ QrIdle /\ DvInit /\ StoreIdle /\ ConcIdle
NextMegolm ==
    \/ GroupEncrypt
    \/ \E h \in Holders, i \in 0 .. MaxGroupMsgs : Share(h, {i})
    \/ \E h \in Holders : Share(h, {})
    \/ \E h \in Holders, i \in 1 .. MaxGroupMsgs : GroupReceive(h, i)
SpecMegolm == InitMegolm /\ [][NextMegolm]_vars

InitQr == OlmInit /\ MgInit /\ QrInit /\ DvInit /\ StoreIdle /\ ConcIdle
NextQr == QrEncode \/ QrDecode
SpecQr == InitQr /\ [][NextQr]_vars

InitTrust == OlmInit /\ MgInit /\ QrIdle /\ DvInit /\ StoreIdle /\ ConcIdle
NextTrust ==
    \/ \E device_keys \in DeviceKeysInputs : DeviceTryFrom(device_keys)
    \/ \E device_keys \in DeviceKeysInputs : DeviceUpdate("d", device_keys)
    \/ \E state \in LocalTrustStates : DeviceSetTrustState("d", state)
    \/ IdentityEvidence
SpecTrust == InitTrust /\ [][NextTrust]_vars

\* a device created and updated from DeviceKeys with good and bad signatures;
\* nobody sets its trust and no identity appears
InitSignature == OlmInit /\ MgInit /\ QrIdle /\ DvInit /\ StoreIdle /\ ConcIdle
NextSignature ==
    \/ \E device_keys \in DeviceKeysInputs : DeviceTryFrom(device_keys)
    \/ \E device_keys \in DeviceKeysInputs : DeviceUpdate("d", device_keys)
SpecSignature == InitSignature /\ [][NextSignature]_vars

\* the DeviceKeys of one announcement of the device (one display name, one
\* algorithm list), under every key, signature and identity signature
EvidenceDeviceKeys == {device_keys \in DeviceKeysInputs : device_keys.display_name = 1}

\* a device, the verification evidence that comes and goes, and updates that
\* differ in keys and signatures only
InitEvidence == OlmInit /\ MgInit /\ QrIdle /\ DvInit /\ StoreIdle /\ ConcIdle
NextEvidence ==
    \/ \E device_keys \in EvidenceDeviceKeys : DeviceTryFrom(device_keys)
    \/ \E device_keys \in EvidenceDeviceKeys : DeviceUpdate("d", device_keys)
    \/ \E state \in LocalTrustStates : DeviceSetTrustState("d", state)
    \/ IdentityEvidence
SpecEvidence == InitEvidence /\ [][NextEvidence]_vars

\* the DeviceKeys the server hands out for the device that is stored: signed with
\* the device's first key, no identity signature; the key itself may change
StoredDeviceKeys ==
    {device_keys \in DeviceKeysInputs :
        /\ ~device_keys.signatures.identity
        /\ device_keys.keys \in {1, 2}
        /\ device_keys.signatures.device = 1}

\* the account of the store the devices are saved to
TheAccount == [identity_keys |-> "alice", shared |-> FALSE]

\* the local trust states a user sets on a device whose keys keep changing
StoredTrustStates == {"Verified"}

\* the DeviceKeys a device is created from when only its local trust matters
FirstDeviceKeys ==
    {device_keys \in StoredDeviceKeys : device_keys.keys = 1 /\ device_keys.display_name = 1}

\* a device and its clone
InitClone == OlmInit /\ MgInit /\ QrIdle /\ DvInit /\ StoreIdle /\ ConcIdle
NextClone ==
    \/ \E device_keys \in StoredDeviceKeys : DeviceTryFrom(device_keys)
    \/ \E h \in Handles, device_keys \in StoredDeviceKeys : DeviceUpdate(h, device_keys)
    \/ \E h \in Handles, state \in LocalTrustStates : DeviceSetTrustState(h, state)
    \/ \E h \in Handles : DeviceMarkAsDeleted(h)
    \/ DeviceClone
SpecClone == InitClone /\ [][NextClone]_vars

\* a device (d), the store it is saved to, and what the store hands out (c)
InitStore == OlmInit /\ MgInit /\ QrIdle /\ DvInit /\ StoreIdle /\ ConcIdle
NextStore ==
    \/ \E device_keys \in StoredDeviceKeys : DeviceTryFrom(device_keys)
    \/ \E device_keys \in StoredDeviceKeys : DeviceUpdate("d", device_keys)
    \/ \E state \in StoredTrustStates : DeviceSetLocalTrust("d", state)
    \/ DeviceMarkAsDeleted("d")
    \/ StoreSaveAccount(TheAccount)
    \/ StoreSaveDevice("d")
    \/ StoreReopen
    \/ StoreLoadAccount
    \/ StoreGetDevice
SpecStore == InitStore /\ [][NextStore]_vars

\* a device, its local trust set through either handle, and the store
InitLocalTrust == OlmInit /\ MgInit /\ QrIdle /\ DvInit /\ StoreIdle /\ ConcIdle
NextLocalTrust ==
    \/ \E device_keys \in FirstDeviceKeys : DeviceTryFrom(device_keys)
    \/ \E h \in Handles, state \in LocalTrustStates : DeviceSetLocalTrust(h, state)
    \/ StoreSaveAccount(TheAccount)
    \/ StoreReopen
    \/ StoreLoadAccount
    \/ StoreGetDevice
SpecLocalTrust == InitLocalTrust /\ [][NextLocalTrust]_vars

\* the Olm sessions of one account: saved, looked up, and looked up again after
\* the store was opened again, in the same boot or after a restart of the machine
InitSessions == OlmInit /\ MgInit /\ QrIdle /\ DvInit /\ StoreIdle /\ ConcIdle
NextSessions ==
    \/ StoreSaveAccount(TheAccount)
    \/ \E session \in Sessions : StoreSaveSession(session)
    \/ \E sender_key \in SenderKeys : StoreGetSessions(sender_key)
    \/ \E reboot \in BOOLEAN : StoreOpen(stMem.device_id, stMem.passphrase, reboot)
    \/ StoreLoadAccount
    \/ ClockTick
SpecSessions == InitSessions /\ [][NextSessions]_vars

\* the accounts of one database file: the store is created with or without a
\* passphrase, accounts are saved into it and loaded from it, and the file is
\* opened again for the same or for another device id
InitAccount == OlmInit /\ MgInit /\ QrIdle /\ DvInit /\ StoreInit /\ ConcIdle
NextAccount ==
    \/ \E account \in Accounts : StoreSaveAccount(account)
    \/ \E i \in 1 .. Len(StoreDeviceIds) : StoreOpen(StoreDeviceIds[i], stMem.passphrase, FALSE)
    \/ StoreLoadAccount
SpecAccount == InitAccount /\ [][NextAccount]_vars

\* a device encrypts through the sessions the store holds for its Curve25519
\* key, before and after sessions were saved and the store was opened again
InitDeviceEncrypt == OlmInit /\ MgInit /\ QrIdle /\ DvInit /\ StoreIdle /\ ConcIdle
NextDeviceEncrypt ==
    \/ StoreSaveAccount(TheAccount)
    \/ \E session \in Sessions : StoreSaveSession(session)
    \/ \E curve_key \in SenderKeys \cup {"none"} : DeviceEncrypt(curve_key)
    \/ StoreReopen
    \/ StoreLoadAccount
SpecDeviceEncrypt == InitDeviceEncrypt /\ [][NextDeviceEncrypt]_vars

\* two stores, each with its own account, on one database file: both save the
\* device of one user id and device id, and load their devices
InitShared == OlmInit /\ MgInit /\ QrIdle /\ DvInit /\ StoreIdle /\ ConcIdle
NextShared ==
    \/ \E account_id \in AccountIds, device \in SharedDevices :
          SharedSaveDevice(account_id, device)
    \/ \E account_id \in AccountIds : SharedLoadDevices(account_id)
SpecShared == InitShared /\ [][NextShared]_vars

\* two tasks that encrypt for devices with sessions, for the same or for
\* different sender keys
InitEncrypt == OlmInit /\ MgInit /\ QrIdle /\ DvInit /\ StoreIdle /\ ConcIdle
NextEncrypt ==
    \/ \E c \in Callers, sender_key \in SenderKeys : EncryptGetSessions(c, sender_key)
    \/ \E c \in Callers : EncryptLock(c)
    \/ \E c \in Callers : EncryptCloneFirst(c)
    \/ \E c \in Callers : EncryptReturn(c)
SpecEncrypt == InitEncrypt /\ [][NextEncrypt]_vars

\* two tasks that save a device to the same store, before and after the store
\* has its account
InitSaveDevice == OlmInit /\ MgInit /\ QrIdle /\ DvInit /\ StoreIdle /\ ConcIdle
NextSaveDevice ==
    \/ StoreSaveAccount(TheAccount)
    \/ \E t \in Callers : SaveDeviceStart(t)
    \/ \E t \in Callers : SaveDeviceLock(t)
    \/ \E t \in Callers : SaveDeviceUpsert(t)
    \/ \E t \in Callers : SaveDeviceSelect(t)
    \/ \E t \in Callers : SaveDeviceAlgorithm(t)
    \/ \E t \in Callers : SaveDeviceKey(t)
SpecSaveDevice == InitSaveDevice /\ [][NextSaveDevice]_vars

\* the same two tasks, whose save may be cancelled or fail between statements
InitCancel == OlmInit /\ MgInit /\ QrIdle /\ DvInit /\ StoreIdle /\ ConcIdle
NextCancel ==
    \/ StoreSaveAccount(TheAccount)
    \/ \E t \in Callers : SaveDeviceStart(t)
    \/ \E t \in Callers : SaveDeviceLock(t)
    \/ \E t \in Callers : SaveDeviceUpsert(t)
    \/ \E t \in Callers : SaveDeviceSelect(t)
    \/ \E t \in Callers : SaveDeviceAlgorithm(t)
    \/ \E t \in Callers : SaveDeviceKey(t)
    \/ \E t \in Callers : SaveDeviceCancel(t)
SpecCancel == InitCancel /\ [][NextCancel]_vars

\* the tracked users of a store, with the calls that might touch them
InitTracked == OlmInit /\ MgInit /\ QrIdle /\ DvInit /\ StoreIdle /\ ConcIdle
NextTracked ==
    \/ \E user \in UserIds : StoreAddUserForTracking(user)
    \/ StoreSaveAccount(TheAccount)
    \/ StoreLoadAccount
    \/ StoreReopen
SpecTracked == InitTracked /\ [][NextTracked]_vars

\* the inbound group sessions of one account: saved, looked up, and looked up
\* again after the store was opened again and the account loaded
InitGroupSessions == OlmInit /\ MgInit /\ QrIdle /\ DvInit /\ StoreIdle /\ ConcIdle
NextGroupSessions ==
    \/ StoreSaveAccount(TheAccount)
    \/ \E session \in InboundGroupSessions : StoreSaveInboundGroupSession(session)
    \/ \E key \in GroupKeys : StoreGetInboundGroupSession(key)
    \/ StoreReopen
    \/ StoreLoadAccount
SpecGroupSessions == InitGroupSessions /\ [][NextGroupSessions]_vars

\* the operations that need the account id, on a store that has none yet, gets
\* one from save_account or load_account, and is opened again
InitAccountUnset == OlmInit /\ MgInit /\ QrIdle /\ DvInit /\ StoreIdle /\ ConcIdle
NextAccountUnset ==
    \/ \E device_keys \in FirstDeviceKeys : DeviceTryFrom(device_keys)
    \/ StoreSaveAccount(TheAccount)
    \/ StoreLoadAccount
    \/ StoreReopen
    \/ \E session \in {s \in Sessions : s.session_id = "s1"} : StoreSaveSession(session)
    \/ \E sender_key \in SenderKeys : StoreGetSessions(sender_key)
    \/ \E session \in {g \in InboundGroupSessions : g.room_id = "!r2"} :
          StoreSaveInboundGroupSession(session)
    \/ StoreSaveDevice("d")
SpecAccountUnset == InitAccountUnset /\ [][NextAccountUnset]_vars

DeliveredTo(p) == sentCt[Other(p)] - Len(net[p])

\* C1: between a matching outbound and inbound session, as long as each side's
\* messages are delivered in the order they were sent (and nothing else is
\* delivered), every decrypt returns the plaintext of the message that was sent at
\* that position, whoever sends when; A's first message is a PrekeyMessage.
C1_InOrderRoundTrip ==
    (~hist.tampered /\ ~hist.reordered) =>
        /\ last.op = "dec" =>
              last.out = OutOk(Plaintext(Other(last.who), DeliveredTo(last.who)))
        /\ (last.op = "enc" /\ last.who = "A" /\ sentCt["A"] = 1) => last.msg.pre

\* both sides have sent twice, taking turns, and A has just decrypted B's second message
C1_Witness ==
    /\ ~hist.tampered /\ ~hist.reordered
    /\ last.op = "dec" /\ last.who = "A" /\ last.out = OutOk(Plaintext("B", 2))
    /\ last.msg.rk # sess["A"].sending_ratchet.key - 1
    /\ sentCt["A"] >= 2 /\ nextKey >= FirstKey + 4
    /\ net = [p \in Parties |-> << >>]

\* C2: encrypt returns a PrekeyMessage exactly while the session is the outbound
\* one and has not yet successfully decrypted a message.
C2_PrekeyUntilFirstDecrypt ==
    last.op = "enc" => (last.msg.pre <=> (last.who = "A" /\ ~hist.decOk["A"]))

\* both sides have decrypted a message of the other
Established == hist.decOk["A"] /\ hist.decOk["B"]

Belongs(p, m) == sess[p].receiving_ratchet.some /\ sess[p].receiving_ratchet.rk = m.rk
Returned(l) == l.op = "dec" /\ l.out.kind # "Panic"

\* C4: a decrypt call that returns has performed a DH ratchet step exactly when the
\* message's ratchet key did not belong to the receiving ratchet (or there was
\* none): then the receiving ratchet is one for the message's key, on a new chain,
\* the sending ratchet is inactive, and the next encrypt uses a ratchet key never
\* used before; otherwise the sending ratchet and the prekey state are unchanged
\* and the receiving ratchet stays on its key and chain.
C4_RatchetStepIffUnknownKey ==
    [][\A p \in Parties :
        /\ (Returned(last') /\ last'.who = p /\ ~Belongs(p, last'.msg)) =>
              /\ sess'[p].receiving_ratchet.some
              /\ sess'[p].receiving_ratchet.rk = last'.msg.rk
              /\ sess'[p].receiving_ratchet.chain # sess[p].receiving_ratchet.chain
              /\ sess'[p].sending_ratchet.kind = "Inactive"
              /\ sess'[p].sending_ratchet.root # sess[p].sending_ratchet.root
        /\ (Returned(last') /\ last'.who = p /\ Belongs(p, last'.msg)) =>
              /\ sess'[p].sending_ratchet = sess[p].sending_ratchet
              /\ sess'[p].session_keys = sess[p].session_keys
              /\ sess'[p].receiving_ratchet.rk = sess[p].receiving_ratchet.rk
              /\ sess'[p].receiving_ratchet.chain = sess[p].receiving_ratchet.chain
        /\ (last'.op = "enc" /\ last'.who = p /\ sess[p].sending_ratchet.kind = "Inactive") =>
              /\ last'.msg.rk = nextKey /\ nextKey' > nextKey
              /\ last'.msg.idx = 0
              /\ sess'[p].sending_ratchet.kind = "Active"
              /\ sess'[p].sending_ratchet.key = last'.msg.rk
    ]_vars

\* A has taken a ratchet step on B's reply and then encrypted under a fresh key
C4_Witness ==
    /\ last.op = "enc" /\ last.who = "A" /\ last.msg.idx = 0
    /\ last.msg.rk = nextKey - 1 /\ last.msg.rk > FirstKey + 1
    /\ sess["A"].receiving_ratchet.some /\ hist.decOk["A"] /\ ~hist.failed

\* C5: a decrypt of a message that is malformed or whose MAC does not verify ends
\* in the error BadMessageFormat or BadMac and leaves the session as it was.
C5_FailedDecryptChangesNothing ==
    [][\A p \in Parties :
        (last'.op = "dec" /\ last'.who = p
            /\ (~last'.msg.wellformed \/ last'.msg.mk \in {<<"forged">>, <<"garbage">>})) =>
              /\ last'.out.kind \in {"BadMessageFormat", "BadMac"}
              /\ sess'[p] = sess[p]
    ]_vars

\* C6: when every message sent has been delivered and decrypted (and nothing else
\* was delivered), the two sessions hold the same root key.
C6_EqualRootKeys ==
    (net = [p \in Parties |-> << >>] /\ ~hist.failed /\ ~hist.tampered) =>
        sess["A"].sending_ratchet.root = sess["B"].sending_ratchet.root

\* S1: A sent m1, B decrypted it and sent m2, A has just decrypted m2
C6_Witness ==
    /\ sentCt = [p \in Parties |-> 1] /\ net = [p \in Parties |-> << >>]
    /\ ~hist.failed /\ ~hist.tampered
    /\ last.op = "dec" /\ last.who = "A" /\ last.out = OutOk(Plaintext("B", 1))
    /\ sess["A"].sending_ratchet.root = sess["B"].sending_ratchet.root
    /\ sess["A"].sending_ratchet.root # Expand3DH.root

C7_WitnessBeyond ==
    /\ last.op = "dec" /\ last.out.kind = "TooManySkipped"
    /\ ~hist.tampered /\ ~hist.crossed
    /\ last.msg.idx - sess[last.who].receiving_ratchet.idx
          + Cardinality(sess[last.who].receiving_ratchet.skipped) = MaxSkip + 1

---------------------------------------------------------------------------
(* Megolm: what an exported session can decrypt *)

IsPrefix(a, b) == Len(a) <= Len(b) /\ SubSeq(b, 1, Len(a)) = a

\* every part of the ratchet value key can be reached by hashing parts forward
Derivable(key, parts) == \A i \in Parts : \E j \in Parts : IsPrefix(parts[j], key[i])

\* the session decrypts exactly the messages sent so far from index first on, and
\* the ratchet values of the earlier ones cannot be derived from it
DecryptsExactlyFrom(s, first) ==
    \A n \in 1 .. Len(mgSent) :
        LET d == GroupDecrypt(s, mgSent[n])
        IN  /\ n - 1 >= first => d = OutOk(GroupPlaintext(n - 1))
            /\ n - 1 < first => /\ d.kind \in {"BadSignature", "UnknownIndex"}
                                /\ ~Derivable(mgSent[n].key, s.parts)

\* C8: the session a device receives from encrypt_session with message index i
\* (taken from a session whose own index is not above i; otherwise from that
\* index) decrypts every message from index i on and none before it, and every
\* session, however many exports and imports produced it, decrypts no message
\* earlier than its own index.
C8_ExportedSessionDecryptsFromIndex ==
    /\ (mgSess["peer"].some /\ mgReq.message_index # {}) =>
          DecryptsExactlyFrom(mgSess["peer"],
                              Max(CHOOSE i \in mgReq.message_index : TRUE, mgReq.floor))
    /\ \A h \in Holders : mgSess[h].some => DecryptsExactlyFrom(mgSess[h], mgSess[h].counter)

\* the peer holds a session exported at an index past the first reseeding of the
\* ratchet, has decrypted a later message with it, and earlier messages exist
C8_Witness ==
    /\ mgSess["peer"].some
    /\ mgReq.message_index # {}
    /\ mgReq.floor < mgSess["peer"].counter
    /\ mgSess["peer"].counter > Stride
    /\ mgLast.who = "peer"
    /\ mgLast.out.kind = "Ok"
    /\ mgLast.index > mgSess["peer"].counter + Stride

---------------------------------------------------------------------------
(* QR envelope: the two round trips *)

\* C9: a valid message of any of the three variants is encoded by to_bytes, and
\* from_bytes of those bytes is the message again, of the variant the mode byte
\* of the encoding selects.
C9_EncodeDecodeRoundTrip ==
    qrSrc.kind = "Ok" =>
        /\ qrSteps % 2 = 1 => qrCur.kind = "Bytes"
        /\ (qrSteps % 2 = 0 /\ qrSteps > 0) =>
              /\ qrCur = qrSrc
              /\ qrCur.msg.variant = Variants[qrPrev.bytes[8] + 1]

\* a self-verification without master key, with a secret of exactly the minimum
\* length, has gone through to_bytes and from_bytes
C9_Witness ==
    /\ qrSrc.kind = "Ok"
    /\ qrSrc.msg.variant = "SelfVerificationNoMasterKey"
    /\ Len(qrSrc.msg.shared_secret) = MIN_SECRET_LEN
    /\ qrSteps = 2
    /\ qrCur.kind = "Ok"

\* C10: bytes that from_bytes decodes are reproduced exactly by to_bytes of the
\* decoded message; the envelope of decode_encode_cycle decodes to a Verification
\* with flow id "!test:localhost", keys 32 x 'A' and 32 x 'B' and the long secret.
C10_DecodeEncodeRoundTrip ==
    qrSrc.kind = "Bytes" =>
        /\ (qrSteps % 2 = 0 /\ qrSteps > 0) => qrCur = qrSrc
        /\ (qrSrc.bytes = VERIFICATION /\ qrSteps = 1) =>
              qrCur = QrOk([variant |-> "Verification", flow_id |-> RoomFlow,
                            first_key |-> Key(65), second_key |-> Key(66),
                            shared_secret |-> LongSecret])

\* the envelope of decode_encode_cycle has been decoded and encoded again
C10_Witness ==
    /\ qrSrc = QrBytes(VERIFICATION)
    /\ qrSteps = 2
    /\ qrCur.kind = "Bytes"

---------------------------------------------------------------------------
(* QR envelope: the errors of from_bytes *)

\* the last conversion was from_bytes, applied to these bytes
Decoded == qrPrev.kind = "Bytes"
Input == qrPrev.bytes

\* what the layout says about an input
HasMagic(b) == Len(b) >= 8 /\ Take(b, 6) = HEADER
HasPreamble(b) == HasMagic(b) /\ b[7] = VERSION /\ b[8] <= MAX_MODE
FlowLen(b) == b[9] * 256 + b[10]
Truncated(b) == Len(b) < 10 \/ Len(b) < 10 + FlowLen(b) + 2 * KEY_LEN
Complete(b) == HasPreamble(b) /\ ~Truncated(b)
FlowOf(b) == SubSeq(b, 11, 10 + FlowLen(b))
SecretOf(b) == Drop(b, 10 + FlowLen(b) + 2 * KEY_LEN)
BadIdentifier(b) == b[8] = 0 /\ ~IsRoomId(FlowOf(b))

C12_VersionBeforeMode ==
    (Decoded /\ HasMagic(Input) /\ Input[7] # VERSION) =>
        qrCur = QrErr("Version", Input[7])

\* "MATRIX" + 0x01 + 0x03 has been refused with Version(1)
C12_Witness == qrPrev = QrBytes(HEADER \o <<1, 3>>) /\ qrCur = QrErr("Version", 1)

\* C13: with the magic and version 2, a mode byte n above 2 gives Mode(n), also
\* when the input ends with the mode byte.
C13_UnknownMode ==
    (Decoded /\ HasMagic(Input) /\ Input[7] = VERSION /\ Input[8] > MAX_MODE) =>
        qrCur = QrErr("Mode", Input[8])

\* "MATRIX" + 0x02 + 0x03 with nothing after it has been refused with Mode(3)
C13_Witness == qrPrev = QrBytes(HEADER \o <<2, 3>>) /\ qrCur = QrErr("Mode", 3)

\* C14: with magic, version 2 and a valid mode, an input that ends before the
\* flow length, the flow id or either key is complete gives Read.
C14_TruncatedGivesRead ==
    (Decoded /\ HasPreamble(Input)) => (qrCur.kind = "Read" <=> Truncated(Input))

\* "MATRIX" + 0x02 + 0x02 with nothing after it has been refused with Read
C14_Witness == qrPrev = QrBytes(HEADER \o <<2, 2>>) /\ qrCur.kind = "Read"

\* an input that ends inside the second key has been refused with Read
C14_WitnessKey ==
    /\ Decoded /\ HasPreamble(Input) /\ Len(Input) >= 10
    /\ Len(Input) > 10 + FlowLen(Input) + KEY_LEN
    /\ Truncated(Input)
    /\ qrCur.kind = "Read"

C16_ShortSecret ==
    (Decoded /\ Complete(Input) /\ ~BadIdentifier(Input)) =>
        /\ Len(SecretOf(Input)) < MIN_SECRET_LEN =>
              qrCur = QrErr("SharedSecret", Len(SecretOf(Input)))
        /\ Len(SecretOf(Input)) = MIN_SECRET_LEN =>
              qrCur.kind = "Ok" /\ qrCur.msg.shared_secret = SecretOf(Input)

\* the mode-2 envelope of decode_short_secret has been refused with SharedSecret(6)
C16_Witness ==
    /\ qrPrev = QrBytes(Envelope(HEADER, 2, 2, 0, 7, TxnFlow, ShortSecret))
    /\ qrCur = QrErr("SharedSecret", 6)

\* an envelope with a secret of exactly 8 bytes has been decoded
C16_WitnessMinimum ==
    /\ Decoded /\ Complete(Input) /\ Len(SecretOf(Input)) = MIN_SECRET_LEN
    /\ qrCur.kind = "Ok"

---------------------------------------------------------------------------
(* Devices: trust *)

\* C17: trust_state is true exactly when the local trust is Verified, or our own
\* identity is present and verified and the owner's identity is present and
\* either is our own and signed the device, or is another user's that ours
\* signed and that signed the device; without own or owner identity and without
\* local verification it is false.
C17_TrustStateIff ==
    dvDev["d"].some =>
        LET local == dvCell[dvDev["d"].cell].trust = "Verified"
            signed == dvDev["d"].signatures.identity
            cross == /\ dvOwn.some /\ dvOwn.verified
                     /\ \/ dvOwner.kind = "Own" /\ signed
                        \/ dvOwner.kind = "Other" /\ dvOwner.signed /\ signed
        IN  /\ Trusted("d") <=> (local \/ cross)
            /\ ((~dvOwn.some \/ dvOwner.kind = "None") /\ ~local) => ~Trusted("d")

\* a device of another user, not verified locally, is trusted through the
\* identities
C17_Witness ==
    /\ dvDev["d"].some
    /\ dvCell[dvDev["d"].cell].trust = "BlackListed"
    /\ dvOwner.kind = "Other"
    /\ Trusted("d")

\* a call that adds verification evidence: an identity step, local verification,
\* or an update_device whose keys carry every signature the device had
AddsEvidence(call, before) ==
    \/ call.op = "identity"
    \/ call.op = "set_trust_state" /\ call.state = "Verified"
    \/ /\ call.op = "update_device"
       /\ before.signatures.identity => call.device_keys.signatures.identity

C19_DeletedSharedIdempotentMonotonic ==
    [][/\ \A h \in Handles :
             (dvDev[h].some /\ Deleted(h) /\ dvLast'.op # "get_device") => Deleted(h)'
       /\ dvLast'.op = "mark_as_deleted" =>
             /\ \A h \in Handles : dvDev'[h].some => Deleted(h)'
             /\ Deleted(dvLast'.h) => <<dvDev, dvCell>>' = <<dvDev, dvCell>>
       /\ dvLast'.op = "clone" => (Deleted("c")' <=> Deleted("d"))]_vars

\* the device was marked as deleted through d, its clone was then updated with
\* new keys, and both still read deleted
C19_Witness ==
    /\ dvLast.op = "update_device" /\ dvLast.res = "Ok" /\ dvLast.h = "c"
    /\ dvDev["d"].some /\ dvDev["c"] # dvDev["d"]
    /\ Deleted("d") /\ Deleted("c")
    /\ dvCell[dvDev["c"].cell].trust = "Verified"

\* C20: once the device has been marked deleted and saved, the device the store
\* hands out after it was dropped, opened again and the account loaded still
\* reads deleted.
C20_DeletedSurvivesReload ==
    (/\ stHist.saved_deleted
     /\ stHist.reopens > 0
     /\ stMem.devices.some /\ stMem.devices.made = "load") =>
        dvCell[stMem.devices.cell].deleted

\* the signature under the device's key id was not made with the Ed25519 key it is
\* checked against, or there is no such key
BadSelfSignature(device_keys, key) == key = 0 \/ device_keys.signatures.device # key

SignatureErrors == {"BadSignature", "MissingSigningKey"}

C22_WitnessTryFrom ==
    /\ dvLast.op = "try_from" /\ dvLast.res = "BadSignature"
    /\ dvLast.device_keys.signatures.device # 0
    /\ ~dvDev["d"].some

\* the device the store has in its cache, as get_device returns it
Cached == stMem.devices
CachedCell == dvCell[stMem.devices.cell]

\* C21: with no cross-signing identities, a device whose local trust is Unset has
\* trust_state false; set_local_trust(Verified) makes trust_state true; and the
\* device load_account builds from the row has the local trust of the last device
\* that was saved, whichever of the four states that is.
C21_LocalTrustSetAndReloaded ==
    [][/\ \A h \in Handles :
             (dvDev'[h].some /\ dvCell'[dvDev'[h].cell].trust = "Unset") => ~Trusted(h)'
       /\ \A h \in Handles :
             (dvLast'.op = "set_local_trust" /\ dvLast'.h = h /\ dvLast'.state = "Verified")
                => Trusted(h)'
       /\ (dvLast'.op = "load_account" /\ dvLast'.res = "Some" /\ Cached'.some) =>
             /\ Cached'.made = "load"
             /\ stHist'.saved.some
             /\ CachedCell'.trust = stHist'.saved.cell.trust
             /\ TrustState(Cached', CachedCell', dvOwn', dvOwner')
                  <=> stHist'.saved.cell.trust = "Verified"]_vars

\* the device was verified and saved, the store opened again and the account
\* loaded: the loaded device is Verified and trusted
C21_Witness ==
    /\ stHist.reopens > 0 /\ dvLast.op = "get_device"
    /\ Cached.some /\ Cached.made = "load"
    /\ CachedCell.trust = "Verified"
    /\ TrustState(Cached, CachedCell, dvOwn, dvOwner)
    /\ dvDev["c"] = Cached

\* the same for a device saved as Ignored
C21_WitnessIgnored ==
    /\ stHist.reopens > 0 /\ dvLast.op = "load_account"
    /\ Cached.some /\ Cached.made = "load"
    /\ CachedCell.trust = "Ignored"

\* the sessions saved so far with this sender key
SavedFor(sender_key) == {s \in stHist.session_saved : s.sender_key = sender_key}

\* the session ids of a list of sessions
IdsOf(sessions) == {sessions[i].session_id : i \in 1 .. Len(sessions)}

\* C23: after the store was opened again and the account loaded, get_sessions(K)
\* returns exactly the sessions that were saved with sender key K, each once
\* (equal by session_id), however often a session was saved.
C23_SessionsSurviveReopen ==
    (dvLast.op = "get_sessions" /\ stHist.reopens > 0 /\ stMem.account_id # 0) =>
        LET saved == SavedFor(dvLast.arg[1])
        IN  IF saved = {} THEN dvLast.res = "None"
            ELSE /\ dvLast.res = "Some"
                 /\ IdsOf(dvLast.out) = {s.session_id : s \in saved}
                 /\ Len(dvLast.out) = Cardinality(saved)

\* the accounts saved last for the device id of the open store (none or one)
SavedAccounts == {p[2] : p \in {q \in stHist.account_saved : q[1] = stMem.device_id}}

\* the rows of the accounts table with this device id
AccountRows(device_id) ==
    {i \in 1 .. Len(stDb.accounts) : stDb.accounts[i].device_id = device_id}

\* C24: load_account returns None exactly if no account was ever saved for the
\* store's user id and device id, otherwise the account saved last, shared flag
\* included, with and without a passphrase; however often save_account ran, the
\* table holds exactly one row for that user id and device id.
C24_LoadAccountReturnsLastSaved ==
    /\ dvLast.op = "load_account" =>
          /\ dvLast.res = "None" <=> SavedAccounts = {}
          /\ SavedAccounts # {} => (dvLast.res = "Some" /\ {dvLast.out[1]} = SavedAccounts)
    /\ \A i \in 1 .. Len(StoreDeviceIds) :
          Cardinality(AccountRows(StoreDeviceIds[i])) =
             IF \E p \in stHist.account_saved : p[1] = StoreDeviceIds[i] THEN 1 ELSE 0

\* a shared account saved under a passphrase, for the second device id of the
\* file, is loaded again
C24_Witness ==
    /\ dvLast.op = "load_account" /\ dvLast.res = "Some"
    /\ stMem.passphrase # "" /\ stMem.device_id = StoreDeviceIds[2]
    /\ Len(stDb.accounts) = 2
    /\ dvLast.out[1] = [identity_keys |-> "alice2", shared |-> TRUE]

\* the file holds an account of another device id only: None
C24_WitnessNone ==
    /\ dvLast.op = "load_account" /\ dvLast.res = "None"
    /\ Len(stDb.accounts) = 1

\* the operations that need the account id
NeedAccount == {"save_session", "get_sessions", "save_inbound_group_session", "save_device"}

\* the call gave this store instance its account id
SetsAccount(call) ==
    \/ call.op = "save_account" /\ call.res = "Ok"
    \/ call.op = "load_account" /\ call.res = "Some"

\* C25: on a store instance without account id, save_session, get_sessions,
\* save_inbound_group_session and save_device fail with AccountUnset; the id is
\* set by a successful save_account or a load_account that found the account,
\* by nothing else, is never unset on that instance, and with it set none of the
\* four operations fails with AccountUnset.
C25_AccountUnsetUntilSavedOrLoaded ==
    [][/\ dvLast'.op \in NeedAccount =>
             (dvLast'.res = "AccountUnset" <=> stMem.account_id = 0)
       /\ (stMem.account_id = 0 /\ stMem'.account_id # 0) => SetsAccount(dvLast')
       /\ SetsAccount(dvLast') => stMem'.account_id # 0
       /\ (stMem.account_id # 0 /\ dvLast'.op # "open") => stMem'.account_id # 0]_vars

\* all four have failed on the first instance, and after the reopen and
\* load_account a session is saved
C25_Witness ==
    /\ stHist.reopens > 0 /\ stHist.loaded
    /\ dvLast.op = "save_session" /\ dvLast.res = "Ok"
    /\ stMem.devices.made = "load"
    /\ Len(stDb.sessions) = 1 /\ Len(stDb.inbound_group_sessions) = 1

\* save_device fails on the reopened instance before load_account
C25_WitnessUnset ==
    /\ stHist.reopens > 0 /\ ~stHist.loaded /\ Len(stDb.accounts) = 1
    /\ dvLast.op = "save_device" /\ dvLast.res = "AccountUnset"

\* C26: after save_device, possibly several times with a changed display name,
\* trust state, algorithms or keys, and after the store was opened again and the
\* account loaded, the store holds a device with the saved user id and device id
\* whose algorithms and keys are those of the last save.
C26_ReloadedDeviceEqualsLastSave ==
    (/\ dvLast.op = "load_account" /\ dvLast.res = "Some"
     /\ stHist.reopens > 0 /\ stHist.saved.some) =>
        /\ Cached.some
        /\ Cached.user_id = stHist.saved.device.user_id
        /\ Cached.device_id = stHist.saved.device.device_id
        /\ Cached.algorithms = stHist.saved.device.algorithms
        /\ Cached.keys = stHist.saved.device.keys

\* what get_inbound_group_session would return for the key of this session
CachedGroupSession(session) ==
    GroupSessionStoreGet(stMem.inbound_group_sessions, GroupKey(session))

\* C27: right after save_inbound_group_session(s) the lookup with the room id,
\* sender key and session id of s gives s; after the store was opened again and
\* load_account has run, the lookup gives every session saved before; a lookup
\* with a triple that was never saved gives None.
C27_GroupSessionsCachedAndReloaded ==
    /\ (dvLast.op = "save_inbound_group_session" /\ dvLast.res = "Ok") =>
           CachedGroupSession(dvLast.arg[1]) = {dvLast.arg[1]}
    /\ (dvLast.op = "load_account" /\ dvLast.res = "Some" /\ stHist.reopens > 0) =>
           \A s \in stHist.group_saved : CachedGroupSession(s) = {s}
    /\ (/\ dvLast.op = "get_inbound_group_session"
        /\ dvLast.arg \notin {GroupKey(s) : s \in stHist.group_saved}) =>
           dvLast.res = "None"

\* C28: add_user_for_tracking(u) returns true exactly if u was not tracked
\* before the call, and tracked_users is at every moment the set of the users
\* added to the store, each once.
C28_TrackedUsersAreThoseAdded ==
    [][/\ dvLast'.op = "add_user_for_tracking" =>
             (dvLast'.out[1] <=> dvLast'.arg[1] \notin stMem.tracked_users)
       /\ stMem'.tracked_users = stHist'.tracked_added]_vars

\* a user is added a second time, after another one, and the set has two users
C28_Witness ==
    /\ dvLast.op = "add_user_for_tracking" /\ dvLast.out = <<FALSE>>
    /\ Cardinality(stMem.tracked_users) = 2
    /\ dvLast.arg[1] \in stMem.tracked_users

\* the caller is inside the ratchet operation: session.encrypt has been called
\* and has not returned
InRatchetOperation(c) == encPc[c] = "encrypting"

\* C29: for one sender key at most one encrypt is in progress at any time: a
\* caller inside the ratchet operation holds the lock of the peer's session
\* list, and no two callers are inside it for the same peer.
C29_OneRatchetOperationPerPeer ==
    /\ \A c \in Callers : InRatchetOperation(c) => encLock[encPeer[c]] = c
    /\ \A c1, c2 \in Callers :
          (c1 # c2 /\ InRatchetOperation(c1) /\ InRatchetOperation(c2)) =>
              encPeer[c1] # encPeer[c2]

\* the statement executed last, and the one before it
LastStatement(log) == log[Len(log)]
StatementBefore(log) == log[Len(log) - 1]

\* C30: every statement on the connection runs while its task holds the
\* connection mutex, and the statements of one save_device (device upsert, id
\* lookup, algorithm inserts, key insert) follow each other with no statement
\* of another save_device in between.
C30_StatementsUnderTheConnectionMutex ==
    [][Len(sdLog') > Len(sdLog) =>
          /\ sdLock = LastStatement(sdLog').task
          /\ IF LastStatement(sdLog').stmt = "upsert"
             THEN Len(sdLog') > 1 => StatementBefore(sdLog').stmt = "key"
             ELSE /\ StatementBefore(sdLog').task = LastStatement(sdLog').task
                  /\ StatementBefore(sdLog').stmt # "key"]_vars

\* a task waits for the connection while the other one, which took the mutex
\* after it had asked for it, is between two statements of its save
C30_Witness ==
    /\ sdPc["t1"] = "lock" /\ sdLock = "t2"
    /\ sdPc["t2"] = "algorithms" /\ sdTodo["t2"] = {"olm"}
    /\ Len(sdLog) = 3

\* both saves have run, one after the other
C30_WitnessBoth ==
    /\ Len(sdLog) = 9 /\ sdLock = "none"
    /\ sdLog[1].task = "t2" /\ sdLog[9].task = "t1"

\* C31: a save_device that is cancelled or fails part-way leaves none of its
\* writes in the database (never a device row without its algorithm and key
\* rows), and the device it had put into the cache stays there.
C31_CancelledSaveWritesNothing ==
    (dvLast.op = "save_device" /\ dvLast.res = "Cancelled") =>
        /\ stDb.device.some => (stDb.device.algorithms # {} /\ stDb.device.keys # 0)
        /\ stMem.devices = TaskDevice(dvLast.arg[1])

\* the step is p's decrypt taking the DH ratchet step
RatchetStep(p) ==
    /\ last'.op = "dec" /\ last'.who = p /\ last'.msg.wellformed
    /\ ~(sess[p].receiving_ratchet.some /\ BelongsTo(sess[p].receiving_ratchet, last'.msg.rk))
    /\ sess[p].sending_ratchet.kind = "Active"

\* C32: an encrypt on an active sending chain keeps the local ratchet key and
\* the chain, uses the chain's counter as the message index and advances it by
\* one; a DH ratchet step retires the sending chain, and the first encrypt after
\* it starts a new chain, at index 0, under a local ratchet key not used before.
C32_CountersIncreaseWithinAChain ==
    [][\A p \in Parties :
          /\ (last'.op = "enc" /\ last'.who = p) =>
                IF sess[p].sending_ratchet.kind = "Active"
                THEN /\ sess'[p].sending_ratchet.key = sess[p].sending_ratchet.key
                     /\ sess'[p].sending_ratchet.chain = sess[p].sending_ratchet.chain
                     /\ last'.msg.rk = sess[p].sending_ratchet.key
                     /\ last'.msg.idx = sess[p].sending_ratchet.idx
                     /\ sess'[p].sending_ratchet.idx = sess[p].sending_ratchet.idx + 1
                ELSE /\ sess'[p].sending_ratchet.kind = "Active"
                     /\ sess'[p].sending_ratchet.key = nextKey /\ nextKey' > nextKey
                     /\ sess'[p].sending_ratchet.chain # NoChain
                     /\ last'.msg.rk = nextKey /\ last'.msg.idx = 0
                     /\ sess'[p].sending_ratchet.idx = 1
          /\ RatchetStep(p) =>
                /\ sess'[p].sending_ratchet.kind = "Inactive"
                /\ sess'[p].sending_ratchet.chain = NoChain]_vars

\* A has taken a DH ratchet step on B's answer and has sent its second message
\* on the chain it started afterwards
C32_Witness ==
    /\ last.op = "enc" /\ last.who = "A"
    /\ last.msg.idx = 1 /\ last.msg.rk > FirstKey + 1
    /\ sess["A"].sending_ratchet.idx = 2

\* C33: get_sessions(K) with a cache entry for K returns that entry and reads
\* nothing from the database; with an account loaded it returns None exactly if
\* no session with sender key K was saved; a None result leaves the cache as it
\* was; and the get_sessions(K) that follows a successful save_session of a
\* session with sender key K returns a list with that session.
C33_SessionsAreLoadedLazily ==
    [][dvLast'.op = "get_sessions" =>
          /\ stMem.sessions[dvLast'.arg[1]] # << >> =>
                /\ dvLast'.res = "Some"
                /\ dvLast'.out = stMem.sessions[dvLast'.arg[1]]
                /\ stMem' = stMem
          /\ stMem.account_id # 0 =>
                (dvLast'.res = "None" <=> SavedFor(dvLast'.arg[1]) = {})
          /\ dvLast'.res = "None" => stMem' = stMem
          /\ (/\ dvLast.op = "save_session" /\ dvLast.res = "Ok"
              /\ dvLast.arg[1].sender_key = dvLast'.arg[1]) =>
                /\ dvLast'.res = "Some"
                /\ dvLast.arg[1].session_id \in IdsOf(dvLast'.out)]_vars

\* the lookup is served from the cache: the list is in the order the sessions
\* joined the cache, the rows are in the order of the last writes
C33_Witness ==
    /\ dvLast.op = "get_sessions" /\ dvLast.res = "Some"
    /\ Len(dvLast.out) = 2 /\ Len(stDb.sessions) = 2
    /\ dvLast.out[1].session_id = stDb.sessions[2].session_id
    /\ dvLast.out[2].session_id = stDb.sessions[1].session_id

\* the lookup is served from the rows after the store was opened again
C33_WitnessLoaded ==
    /\ dvLast.op = "get_sessions" /\ dvLast.res = "Some"
    /\ stHist.reopens > 0 /\ Len(dvLast.out) = 2
    /\ stHist.clock > 0

\* C34: the final else of Session::decrypt (todo!()) is never taken: no decrypt
\* a party has made ended there, and no message, under whatever ratchet key,
\* would take a party's session there.
C34_TodoBranchUnreachable ==
    /\ last.op = "dec" => last.out.kind # "Todo"
    /\ \A p \in Parties : \A k \in (FirstKey .. nextKey) \cup {EvilKey} :
          DecryptBranch(sess[p], Forged(k, 0)) \in {"advance", "existing"}

\* A, whose session has had no receiving ratchet so far, decrypted B's first
\* answer through the DH ratchet branch
C34_Witness ==
    /\ last.op = "dec" /\ last.who = "A" /\ last.out.kind = "Ok"
    /\ sess["A"].receiving_ratchet.some
    /\ sess["A"].receiving_ratchet.idx = 1
    /\ sess["A"].sending_ratchet.kind = "Inactive"
    /\ sess["B"].sending_ratchet.idx = 1

\* the three fields of a session agree
SessionShape(s) ==
    /\ ~s.receiving_ratchet.some =>
          (s.sending_ratchet.kind = "Active" /\ s.session_keys)
    /\ s.sending_ratchet.kind = "Inactive" => s.receiving_ratchet.some
    /\ s.session_keys => ~s.receiving_ratchet.some

\* C35: in every state of a session, without a receiving ratchet the sending
\* ratchet is Active and the prekey session keys are present, an Inactive
\* sending ratchet comes with a receiving ratchet, the session keys are present
\* only without a receiving ratchet, and a receiving ratchet that is present
\* stays present.
C35_SessionShape ==
    /\ [](\A p \in Parties : SessionShape(sess[p]))
    /\ [][\A p \in Parties :
            sess[p].receiving_ratchet.some => sess'[p].receiving_ratchet.some]_vars

\* A's session after a forged message took it through the DH ratchet branch:
\* the decrypt failed, and the session has a receiving ratchet, an Inactive
\* sending ratchet and no session keys
C35_Witness ==
    /\ last.op = "dec" /\ last.who = "A" /\ last.out.kind # "Ok"
    /\ hist.tampered /\ ~hist.decOk["A"]
    /\ sess["A"].receiving_ratchet.some
    /\ sess["A"].sending_ratchet.kind = "Inactive"
    /\ ~sess["A"].session_keys

\* C36: update_device succeeds exactly when the DeviceKeys are signed with the
\* Ed25519 key the device holds before the call; an update that replaces the key
\* succeeds only if the old key signed it; an update signed only with the new
\* key it brings is refused and leaves the device as it was.
C36_UpdateSignedByStoredKey ==
    [][dvLast'.op = "update_device" =>
          LET device == dvDev[dvLast'.h]
              device_keys == dvLast'.device_keys
          IN  /\ dvLast'.res = "Ok" <=>
                    (device.keys # 0 /\ device_keys.signatures.device = device.keys)
              /\ (dvLast'.res = "Ok" /\ device_keys.keys # device.keys) =>
                    device_keys.signatures.device = device.keys
              /\ (/\ device_keys.keys # device.keys
                  /\ device_keys.signatures.device = device_keys.keys) =>
                    /\ dvLast'.res # "Ok"
                    /\ dvDev' = dvDev /\ dvCell' = dvCell]_vars

\* an update that replaced the key was accepted: it was signed with the key the
\* device held, not with the key it brought
C36_Witness ==
    /\ dvLast.op = "update_device" /\ dvLast.res = "Ok"
    /\ dvLast.device_keys.keys # dvLast.device_keys.signatures.device
    /\ dvDev[dvLast.h].keys = dvLast.device_keys.keys

\* an update signed only with the key it brought was refused
C36_WitnessRefused ==
    /\ dvLast.op = "update_device" /\ dvLast.res = "BadSignature"
    /\ dvLast.device_keys.keys = dvLast.device_keys.signatures.device
    /\ dvDev[dvLast.h].keys # dvLast.device_keys.keys

\* C37: after a successful update_device the device has the algorithms, keys,
\* signatures and display name of the DeviceKeys; its user id, its device id,
\* its local trust and its deleted flag are what they were, and so is the
\* device behind the other handle.
C37_UpdateReplacesFourFields ==
    [][(dvLast'.op = "update_device" /\ dvLast'.res = "Ok") =>
          LET h == dvLast'.h
              device_keys == dvLast'.device_keys
          IN  /\ dvDev'[h].algorithms = device_keys.algorithms
              /\ dvDev'[h].keys = device_keys.keys
              /\ dvDev'[h].signatures = device_keys.signatures
              /\ dvDev'[h].display_name = device_keys.display_name
              /\ dvDev'[h].user_id = dvDev[h].user_id
              /\ dvDev'[h].device_id = dvDev[h].device_id
              /\ dvDev'[h].cell = dvDev[h].cell
              /\ dvCell' = dvCell
              /\ \A o \in Handles \ {h} : dvDev'[o] = dvDev[o]]_vars

\* a verified device that is marked as deleted was updated: its clone still has
\* the algorithms, key and display name from before the update, the device has
\* those of the DeviceKeys, and it is still verified and deleted
C37_Witness ==
    /\ dvLast.op = "update_device" /\ dvLast.res = "Ok" /\ dvLast.h = "d"
    /\ dvDev["c"].some /\ dvDev["c"].cell = dvDev["d"].cell
    /\ dvDev["d"].algorithms # dvDev["c"].algorithms
    /\ dvDev["d"].keys # dvDev["c"].keys
    /\ dvDev["d"].display_name # dvDev["c"].display_name
    /\ dvDev["d"].user_id = "@user" /\ dvDev["d"].device_id = "DEVICEID"
    /\ Deleted("d") /\ dvCell[dvDev["d"].cell].trust = "Verified"

\* C38: encrypt of a device without a Curve25519 key fails with
\* MissingSenderKey; with a key for which the store of a loaded account holds no
\* session it fails with MissingSession; both return no session and leave the
\* store's sessions as they were. With sessions saved for the key, encrypt
\* returns the first session of the store's list for that key together with
\* the ciphertext that session made.
C38_EncryptErrorsAndFirstSession ==
    [][dvLast'.op = "encrypt" =>
          LET curve_key == dvLast'.arg[1]
          IN  /\ curve_key = "none" =>
                    /\ dvLast'.res = "MissingSenderKey"
                    /\ dvLast'.out = << >> /\ stMem' = stMem
              /\ (/\ curve_key # "none" /\ stMem.account_id # 0
                  /\ SavedFor(curve_key) = {}) =>
                    /\ dvLast'.res = "MissingSession"
                    /\ dvLast'.out = << >> /\ stMem' = stMem
              /\ (/\ curve_key # "none" /\ stMem.account_id # 0
                  /\ SavedFor(curve_key) # {}) =>
                    /\ dvLast'.res = "Ok"
                    /\ dvLast'.out = <<stMem'.sessions[curve_key][1],
                                       Ciphertext(stMem'.sessions[curve_key][1])>>
                    /\ [session_id |-> dvLast'.out[1].session_id,
                        sender_key |-> curve_key] \in SavedFor(curve_key)
              /\ dvLast'.res # "Ok" => dvLast'.out = << >>]_vars

\* encrypt returned the first of two sessions of the key
C38_Witness ==
    /\ dvLast.op = "encrypt" /\ dvLast.res = "Ok"
    /\ Len(stMem.sessions[dvLast.arg[1]]) = 2
    /\ dvLast.out[1] = stMem.sessions[dvLast.arg[1]][1]
    /\ dvLast.out[1] # stMem.sessions[dvLast.arg[1]][2]

\* encrypt failed with MissingSession while the store holds sessions of
\* another key
C38_WitnessMissingSession ==
    /\ dvLast.op = "encrypt" /\ dvLast.res = "MissingSession"
    /\ stMem.account_id # 0 /\ Len(stDb.sessions) > 0

\* encrypt failed with MissingSenderKey while the store holds sessions
C38_WitnessMissingSenderKey ==
    /\ dvLast.op = "encrypt" /\ dvLast.res = "MissingSenderKey"
    /\ stMem.account_id # 0 /\ Len(stDb.sessions) > 0

\* C39: every device get_device returns has a devices row with its user id
\* and device id, and every session get_sessions returns has a sessions row
\* with its session id, whatever store calls came before and whether they
\* failed: a save that returned an error left nothing in the cache.
C39_CacheHoldsOnlyPersistedObjects ==
    /\ (dvLast.op = "get_device" /\ dvLast.res = "Some") =>
          /\ stDb.device.some
          /\ stDb.device.user_id = dvDev["c"].user_id
          /\ stDb.device.device_id = dvDev["c"].device_id
    /\ (dvLast.op = "get_sessions" /\ dvLast.res = "Some") =>
          \A i \in 1 .. Len(dvLast.out) :
             \E j \in 1 .. Len(stDb.sessions) :
                stDb.sessions[j].session_id = dvLast.out[i].session_id

\* C40: with two accounts in one database that both save a device of the same
\* user id and device id, the algorithms and device_keys rows a save_device
\* writes reference the devices row of the saving account, and a device loaded
\* under an account has no algorithm and no key that was not saved under that
\* account and has every algorithm of the last save under it.
C40_RowsReferenceOwnAccount ==
    /\ maLast.op = "save_device" =>
          maDb.devices[maLast.row].account_id = maLast.account_id
    /\ maLast.op = "load_devices" =>
          \A device \in maLast.out :
             /\ device.algorithms \subseteq maSaved[maLast.account_id].algorithms
             /\ device.keys \in maSaved[maLast.account_id].keys
             /\ maSaved[maLast.account_id].last.algorithms \subseteq device.algorithms

====
